---- MODULE Spec2Model ----
(***************************************************************************)
(* Keysight E3631A serial driver (src/Keysight_E3631A.py).                 *)
(*                                                                         *)
(* The driver keeps six setpoints (voltage and current of the outputs      *)
(* P6V, P25V, N25V), validates every write against three tiers of limits   *)
(* (factory constants, module-wide USER_* globals, per-instance MIN_*/MAX_* *)
(* attributes), sends an APPLy command for every accepted write and checks  *)
(* every command with a follow-up SYSTem:ERRor? query.                      *)
(*                                                                         *)
(* Python floats are represented in fixed point: Unit model units per 1.0, *)
(* one decimal finer than the six decimals of the '{:6f}' format, so that   *)
(* round(), format() and float() are all real conversions in the model.    *)
(* A text line is the sequence of its comma separated fields.              *)
(***************************************************************************)
EXTENDS Integers, Sequences, FiniteSets, TLC

VARIABLES
    setpoint,   \* [instance -> [channel -> [voltage, current]]]: _P6V_voltage ...
    userLim,    \* [channel -> [quantity -> [min, max]]]: the USER_* module globals
    instLim,    \* [instance -> [channel -> [quantity -> [min, max]]]]: MIN_*/MAX_*
    inst,       \* the power supply: applied values and its FIFO error queue
    last,       \* what the last operation did: arguments, exception, result, wire
    acked,      \* per instance and channel: the pair last written to the transport
    nops,       \* operations performed so far (bounded by MaxOps or MaxScript)
    hist,       \* [on, past]: where on, the states the earlier operations left
    serial,     \* [instance -> the _serial_* attributes]: the session configuration
    thr,        \* [caller -> where its dispatch stands], callers dispatching step by step
    tty         \* [log, rx]: the writes and reads on the serial line, the lines pending

vars == <<setpoint, userLim, instLim, inst, last, acked, nops, hist, serial, thr, tty>>

-----------------------------------------------------------------------------
(* Bounds of the model *)

\* operations in one behaviour
MaxOps == 2
\* entries the modelled error queue holds (the instrument holds up to 20)
MaxErrQ == 2
\* errors one command may raise in the instrument
MaxErrPerCmd == 2
\* operations in one behaviour that keeps its history
MaxScript == 4

-----------------------------------------------------------------------------
(* Values *)

Abs(x) == IF x < 0 THEN -x ELSE x
Max2(a, b) == IF a >= b THEN a ELSE b

RECURSIVE Pow10(_)
Pow10(n) == IF n = 0 THEN 1 ELSE 10 * Pow10(n - 1)

\* decimal digits of the fixed-point representation of a float
UnitDigits == 7
Unit == Pow10(UnitDigits)

_SUPPLY_RESOLVED_DIGITS == 4
DEFAULT_TIMEOUT == 15

\* nearest multiple of step, ties to the even multiple
RoundHalfEven(x, step) ==
    LET q == x \div step
        r == x % step
    IN  IF 2 * r < step THEN q * step
        ELSE IF 2 * r > step THEN (q + 1) * step
        ELSE IF q % 2 = 0 THEN q * step ELSE (q + 1) * step

\* round(x, ndigits) of Python
round_Down(x, ndigits) == (x \div Pow10(UnitDigits - ndigits)) * Pow10(UnitDigits - ndigits)
round(x, ndigits) == RoundHalfEven(x, Pow10(UnitDigits - ndigits))

\* math.isclose(a, b): abs(a - b) <= max(rel_tol * max(|a|, |b|), abs_tol),
\* rel_tol = 1e-09, abs_tol = 0.0.  For integers d <= m * 1e-9 iff d <= m \div 10^9.
isclose(a, b) == Abs(a - b) <= Max2(Abs(a), Abs(b)) \div Pow10(9)

Channels == {"P6V", "P25V", "N25V"}
Quantities == {"voltage", "current"}

_FACTORY_MIN_P6V_VOLTAGE == 0 * Unit
_FACTORY_MAX_P6V_VOLTAGE == 6 * Unit
_FACTORY_MIN_P25V_VOLTAGE == 0 * Unit
_FACTORY_MAX_P25V_VOLTAGE == 25 * Unit
_FACTORY_MIN_N25V_VOLTAGE == (-25) * Unit
_FACTORY_MAX_N25V_VOLTAGE == 0 * Unit
_FACTORY_MIN_P6V_CURRENT == 0 * Unit
_FACTORY_MAX_P6V_CURRENT == 5 * Unit
_FACTORY_MIN_P25V_CURRENT == 0 * Unit
_FACTORY_MAX_P25V_CURRENT == 1 * Unit
_FACTORY_MIN_N25V_CURRENT == 0 * Unit
_FACTORY_MAX_N25V_CURRENT == 1 * Unit

\* the factory constants the six setters compare against
Factory ==
    [ P6V  |-> [ voltage |-> [min |-> _FACTORY_MIN_P6V_VOLTAGE, max |-> _FACTORY_MAX_P6V_VOLTAGE],
                 current |-> [min |-> _FACTORY_MIN_P6V_CURRENT, max |-> _FACTORY_MAX_P6V_CURRENT] ],
      P25V |-> [ voltage |-> [min |-> _FACTORY_MIN_P25V_VOLTAGE, max |-> _FACTORY_MAX_P25V_VOLTAGE],
                 current |-> [min |-> _FACTORY_MIN_P25V_CURRENT, max |-> _FACTORY_MAX_P25V_CURRENT] ],
      N25V |-> [ voltage |-> [min |-> _FACTORY_MIN_N25V_VOLTAGE, max |-> _FACTORY_MAX_N25V_VOLTAGE],
                 current |-> [min |-> _FACTORY_MIN_N25V_CURRENT, max |-> _FACTORY_MAX_N25V_CURRENT] ] ]

-----------------------------------------------------------------------------
(* Limit checks of the setters *)

\* min <= value <= max, the chained comparison of every tier
InTierOpen(lim, value) == lim.min < value /\ value < lim.max
InTier(lim, value) == lim.min <= value /\ value <= lim.max

NoExc ==
    [type |-> "none", tier |-> "-", output |-> "-", quantity |-> "-",
     value |-> 0, min |-> 0, max |-> 0, cls |-> 0, ps |-> 0]

\* the ValueError of a setter: its message names the value, the tier, the
\* output, the quantity (V or I) and the tier's min and max
LimitError(tier, output, quantity, value, lim) ==
    [type |-> "ValueError", tier |-> tier, output |-> output, quantity |-> quantity,
     value |-> value, min |-> lim.min, max |-> lim.max, cls |-> 0, ps |-> 0]

\* the three checks at the head of every setter, in their order
LimitCheckNoInstance(self, output, quantity, value) ==
    IF ~InTier(Factory[output][quantity], value)
    THEN LimitError("factory", output, quantity, value, Factory[output][quantity])
    ELSE IF ~InTier(userLim[output][quantity], value)
    THEN LimitError("user", output, quantity, value, userLim[output][quantity])
    ELSE NoExc
LimitCheckUserFirst(self, output, quantity, value) ==
    IF ~InTier(userLim[output][quantity], value)
    THEN LimitError("user", output, quantity, value, userLim[output][quantity])
    ELSE IF ~InTier(Factory[output][quantity], value)
    THEN LimitError("factory", output, quantity, value, Factory[output][quantity])
    ELSE IF ~InTier(instLim[self][output][quantity], value)
    THEN LimitError("instance", output, quantity, value, instLim[self][output][quantity])
    ELSE NoExc
LimitCheck_NoFactory(self, output, quantity, value) ==
    IF ~InTier(userLim[output][quantity], value)
    THEN LimitError("user", output, quantity, value, userLim[output][quantity])
    ELSE IF ~InTier(instLim[self][output][quantity], value)
    THEN LimitError("instance", output, quantity, value, instLim[self][output][quantity])
    ELSE NoExc
LimitCheck(self, output, quantity, value) ==
    IF ~InTier(Factory[output][quantity], value)
    THEN LimitError("factory", output, quantity, value, Factory[output][quantity])
    ELSE IF ~InTier(userLim[output][quantity], value)
    THEN LimitError("user", output, quantity, value, userLim[output][quantity])
    ELSE IF ~InTier(instLim[self][output][quantity], value)
    THEN LimitError("instance", output, quantity, value, instLim[self][output][quantity])
    ELSE NoExc

-----------------------------------------------------------------------------
(* Strings: a text is the sequence of its comma separated fields (what      *)
(* str.split(',') yields), followed by a tail of line-end characters.       *)
(* A field is a fixed-point number with six decimals (val counts 1e-6),     *)
(* a signed integer literal such as +0 or -113, or any other token; it may  *)
(* carry double quotes at its ends.                                         *)

Fix6(n) == [kind |-> "fix6", val |-> n, tok |-> "", quoted |-> FALSE]
IntLit(n) == [kind |-> "int", val |-> n, tok |-> "", quoted |-> FALSE]
Tok(s) == [kind |-> "str", val |-> 0, tok |-> s, quoted |-> FALSE]
Quoted(f) == [f EXCEPT !.quoted = TRUE]

PyStr(fields) == [fields |-> fields, tail |-> ""]
EmptyStr == PyStr(<<Tok("")>>)

\* len(s) == 0
IsEmptyStrNever(s) == FALSE
IsEmptyStr(s) == s = EmptyStr

\* s.rstrip() in place of the test for the suffix
StripCRLF_AnyEnding(s) == [s EXCEPT !.tail = ""]

\* s.endswith('\r\n') and s[:-2]
StripCRLF(s) == IF s.tail = "\r\n" THEN [s EXCEPT !.tail = ""] ELSE s

\* ''.join([command, '\n'])
WithNewline(s) == [s EXCEPT !.tail = "\n"]

\* the literal '+0,"No error"'
no_error_string == PyStr(<<IntLit(0), Quoted(Tok("No error"))>>)

\* field.strip('"')
StripQuotes(f) == [f EXCEPT !.quoted = FALSE]

\* float(field): the value in model units, or a ValueError
IsNumeric(f) == f.kind \in {"fix6", "int"} /\ ~f.quoted
float(f) ==
    IF f.kind = "fix6" THEN f.val * Pow10(UnitDigits - 6) ELSE f.val * Unit

\* '{:6f}'.format(x): fixed point, six decimals
Format3(x) == Fix6(RoundHalfEven(x, Pow10(UnitDigits - 3)) \div Pow10(UnitDigits - 6))
Format6(x) == Fix6(RoundHalfEven(x, Pow10(UnitDigits - 6)) \div Pow10(UnitDigits - 6))

-----------------------------------------------------------------------------
(* Command texts *)

ApplyHead == [P6V |-> "APPLy P6V", P25V |-> "APPLy P25V", N25V |-> "APPLy N25V"]
QueryHead == [P6V |-> "APPLy? P6V", P25V |-> "APPLy? P25V", N25V |-> "APPLy? N25V"]

error_command == PyStr(<<Tok("SYSTem:ERRor?")>>)
version_command == PyStr(<<Tok("SYSTem:VERSion?")>>)
idn_command == PyStr(<<Tok("*IDN?")>>)
remote_command == PyStr(<<Tok("SYSTem:REMote")>>)
beep_command == PyStr(<<Tok("SYSTem:BEEPer:IMMediate")>>)

\* Python values handed to _generate_apply_command: None, a string, a float
None == [k |-> "None", s |-> "", v |-> 0]
PyString(s) == [k |-> "str", s |-> s, v |-> 0]
PyFloat(v) == [k |-> "float", s |-> "", v |-> v]

\* str(x).upper() on the strings of the model
Upper(s) ==
    CASE s = "p6v" -> "P6V"
      [] s = "p25v" -> "P25V"
      [] s = "n25v" -> "N25V"
      [] s = "def" -> "DEF"
      [] s = "min" -> "MIN"
      [] s = "max" -> "MAX"
      [] OTHER -> s

\* the string form of one APPLy parameter; a string that is no sentinel and
\* no number makes float() raise
IsSentinel(x) == x.k = "None" \/ (x.k = "str" /\ Upper(x.s) \in {"", "DEF", "MIN", "MAX"})
\* float(s) of the strings of the model that spell a number
Numerals == ("3.5" :> (35 * Unit) \div 10) @@ ("1" :> 1 * Unit)
ParamRaises(x) == ~IsSentinel(x) /\ x.k = "str" /\ x.s \notin DOMAIN Numerals
ParamStr(x) ==
    IF IsSentinel(x) THEN Tok(IF x.k = "None" THEN "" ELSE Upper(x.s))
    ELSE Format6(IF x.k = "str" THEN Numerals[x.s] ELSE x.v)

OutputError(output) ==
    [type |-> "ValueError", tier |-> "output", output |-> output, quantity |-> "-",
     value |-> 0, min |-> 0, max |-> 0, cls |-> 0, ps |-> 0]
FloatError ==
    [type |-> "ValueError", tier |-> "float", output |-> "-", quantity |-> "-",
     value |-> 0, min |-> 0, max |-> 0, cls |-> 0, ps |-> 0]

\* _generate_apply_command(output, voltage, current, request): [exc, text]
_generate_apply_command_RequestFirst(output, voltage, current, request) ==
    LET out == Upper(output)
    IN  IF out \notin Channels
        THEN [exc |-> OutputError(out), text |-> EmptyStr]
        ELSE IF request
        THEN [exc |-> NoExc, text |-> PyStr(<<Tok(QueryHead[out])>>)]
        ELSE IF ParamRaises(voltage) \/ ParamRaises(current)
        THEN [exc |-> FloatError, text |-> EmptyStr]
        ELSE [exc |-> NoExc,
              text |-> PyStr(<<Tok(ApplyHead[out]), ParamStr(voltage), ParamStr(current)>>)]
_generate_apply_command_RequestUnchecked(output, voltage, current, request) ==
    LET out == Upper(output)
    IN  IF out \notin Channels /\ ~request
        THEN [exc |-> OutputError(out), text |-> EmptyStr]
        ELSE IF ParamRaises(voltage) \/ ParamRaises(current)
        THEN [exc |-> FloatError, text |-> EmptyStr]
        ELSE IF request
        THEN [exc |-> NoExc, text |-> PyStr(<<Tok("APPLy?"), Tok(out)>>)]
        ELSE [exc |-> NoExc,
              text |-> PyStr(<<Tok(ApplyHead[out]), ParamStr(voltage), ParamStr(current)>>)]
_generate_apply_command(output, voltage, current, request) ==
    LET out == Upper(output)
    IN  IF out \notin Channels
        THEN [exc |-> OutputError(out), text |-> EmptyStr]
        ELSE IF ParamRaises(voltage) \/ ParamRaises(current)
        THEN [exc |-> FloatError, text |-> EmptyStr]
        ELSE IF request
        THEN [exc |-> NoExc, text |-> PyStr(<<Tok(QueryHead[out])>>)]
        ELSE [exc |-> NoExc,
              text |-> PyStr(<<Tok(ApplyHead[out]), ParamStr(voltage), ParamStr(current)>>)]

-----------------------------------------------------------------------------
(* The power supply at the other end of the serial line.  It keeps the     *)
(* pair applied to each output and a first-in-first-out error queue; each  *)
(* queue entry remembers whether the command being dispatched raised it    *)
(* ("current"), an earlier command did ("earlier") or the front panel      *)
(* ("panel").                                                              *)

\* what happens to one command on the line: the port fails to open or to
\* write or to read, the command is lost (no instrument listens), or it raises
\* nerr errors
Env(fail, lost, nerr) == [fail |-> fail, lost |-> lost, nerr |-> nerr]
IdealEnv == Env("none", FALSE, 0)

ErrCode(k) == -(112 + k)
ErrText(e) == PyStr(<<IntLit(e.code), Quoted(Tok("error"))>>)

RECURSIVE Raise(_, _, _)
Raise(errq, k, n) ==
    IF k > n \/ Len(errq) >= MaxErrQ THEN errq
    ELSE Raise(Append(errq, [code |-> ErrCode(k), by |-> "current"]), k + 1, n)

\* entries left by commands dispatched before the one that starts now
Age(dev) ==
    [dev EXCEPT !.errq = [i \in DOMAIN dev.errq |->
        IF dev.errq[i].by = "current" THEN [dev.errq[i] EXCEPT !.by = "earlier"]
        ELSE dev.errq[i]]]

IsApply(line) ==
    /\ Len(line.fields) = 3
    /\ \E ch \in Channels : line.fields[1] = Tok(ApplyHead[ch])
    /\ line.fields[2].kind = "fix6" /\ line.fields[3].kind = "fix6"
IsQuery(line) ==
    /\ Len(line.fields) = 1
    /\ \E ch \in Channels : line.fields[1] = Tok(QueryHead[ch])
ApplyChannel(line) == CHOOSE ch \in Channels : line.fields[1] = Tok(ApplyHead[ch])
QueryChannel(line) == CHOOSE ch \in Channels : line.fields[1] = Tok(QueryHead[ch])

\* what the supply answers to SYSTem:VERSion? and to *IDN?
VersionText == PyStr(<<Tok("1995.0")>>)
IdentityText == PyStr(<<Tok("HEWLETT-PACKARD"), Tok("E3631A"), IntLit(0), Tok("2.1-5.0-1.0")>>)

\* the instrument reads one line: [dev, reply, by]; an empty reply is no reply
Instrument(dev, line, e) ==
    IF line.tail # "\n"
    THEN [dev |-> dev, reply |-> EmptyStr, by |-> "-"]
    ELSE IF [line EXCEPT !.tail = ""] = error_command
    THEN IF dev.errq = <<>>
         THEN [dev |-> dev, reply |-> no_error_string, by |-> "-"]
         ELSE [dev |-> [dev EXCEPT !.errq = Tail(dev.errq)],
               reply |-> ErrText(Head(dev.errq)), by |-> Head(dev.errq).by]
    ELSE IF e.nerr > 0
    THEN [dev |-> [dev EXCEPT !.errq = Raise(dev.errq, 1, e.nerr)],
          reply |-> EmptyStr, by |-> "-"]
    ELSE IF [line EXCEPT !.tail = ""] = version_command
    THEN [dev |-> dev, reply |-> VersionText, by |-> "-"]
    ELSE IF [line EXCEPT !.tail = ""] = idn_command
    THEN [dev |-> dev, reply |-> IdentityText, by |-> "-"]
    ELSE IF IsApply(line)
    THEN [dev |-> [dev EXCEPT !.apply[ApplyChannel(line)] =
                      [voltage |-> line.fields[2].val, current |-> line.fields[3].val]],
          reply |-> EmptyStr, by |-> "-"]
    ELSE IF IsQuery(line)
    THEN [dev |-> dev,
          reply |-> PyStr(<<Quoted(Fix6(dev.apply[QueryChannel(line)].voltage)),
                            Quoted(Fix6(dev.apply[QueryChannel(line)].current))>>),
          by |-> "-"]
    ELSE [dev |-> dev, reply |-> EmptyStr, by |-> "-"]

-----------------------------------------------------------------------------
(* Transport and dispatcher *)

SerialException(stage) ==
    [type |-> "SerialException", tier |-> stage, output |-> "-", quantity |-> "-",
     value |-> 0, min |-> 0, max |-> 0, cls |-> 0, ps |-> 0]

\* one call of _send_raw_scpi_command: the bytes it was given and what it did
\* to the serial port, in order
Call(bytestring, port) == [cmd |-> bytestring, port |-> port]

\* what the call does to the port up to the point where e lets it come: the
\* with statement closes a port that was opened, however the block is left
PortEventsNoWith(e) ==
    CASE e.fail = "open" -> <<>>
      [] e.fail = "write" -> <<"open">>
      [] e.fail = "read" -> <<"open", "write">>
      [] OTHER -> <<"open", "write", "readline", "close">>
PortEvents(e) ==
    CASE e.fail = "open" -> <<>>
      [] e.fail = "write" -> <<"open", "close">>
      [] e.fail = "read" -> <<"open", "write", "close">>
      [] OTHER -> <<"open", "write", "readline", "close">>

\* what ser.readline() returns for a reply: nothing, or the reply and its CRLF
Line(reply) == IF IsEmptyStr(reply) THEN EmptyStr ELSE [reply EXCEPT !.tail = "\r\n"]

\* the end of the line ser.readline() returns: the CRLF of the supply, or what
\* was left of it when the timeout expired after the text or after the CR, or
\* when the CR was lost on the line
Terminator(e) ==
    CASE e.fail = "cut" -> ""
      [] e.fail = "cut_cr" -> "\r"
      [] e.fail = "lf" -> "\n"
      [] OTHER -> "\r\n"
ReadLine(reply, e) ==
    IF IsEmptyStr(reply) THEN EmptyStr ELSE [reply EXCEPT !.tail = Terminator(e)]

\* what the other end of the line does with the bytes: [dev, reply, by]
Reaction(dev, bytestring, e) ==
    IF e.lost THEN [dev |-> dev, reply |-> EmptyStr, by |-> "-"]
    ELSE Instrument(dev, bytestring, e)

\* the outcome of a call, r being the reaction of the other end:
\* [exc, dev, wire, raw, by, calls]; wire is the round trip made (the bytes
\* written and the line read), raw what readline returned
RoundTrip(r, dev, bytestring, e) ==
    IF e.fail \in {"open", "write"}
    THEN [exc |-> SerialException(e.fail), dev |-> dev, wire |-> <<>>,
          raw |-> EmptyStr, by |-> "-", calls |-> <<Call(bytestring, PortEvents(e))>>]
    ELSE IF e.fail = "read"
    THEN [exc |-> SerialException(e.fail), dev |-> r.dev, wire |-> <<>>,
          raw |-> EmptyStr, by |-> "-", calls |-> <<Call(bytestring, PortEvents(e))>>]
    ELSE [exc |-> NoExc, dev |-> r.dev,
          wire |-> <<[cmd |-> bytestring, raw |-> ReadLine(r.reply, e)]>>,
          raw |-> ReadLine(r.reply, e), by |-> r.by,
          calls |-> <<Call(bytestring, PortEvents(e))>>]

\* _send_raw_scpi_command(bytestring): open the port, write, readline, close
_send_raw_scpi_command(dev, bytestring, e) ==
    RoundTrip(Reaction(dev, bytestring, e), dev, bytestring, e)

Warning(kind, cmd) == [kind |-> kind, cmd |-> cmd]

Returned(exc, result, dev, wire, warns, by, calls) ==
    [exc |-> exc, result |-> result, dev |-> dev, wire |-> wire, warns |-> warns,
     by |-> by, calls |-> calls]

\* send_scpi_command(command, _escape): envs are the fates of the round trips
\* of this call, the command's first and the error query's second
RECURSIVE send_scpi_command(_, _, _, _)

\* the check of the error message: t is the round trip of the command, c the
\* escaped dispatch of the error query
CheckErrorMessage_KeepsResponce(t, c, command) ==
    IF c.exc.type # "none"
    THEN Returned(c.exc, EmptyStr, c.dev, t.wire \o c.wire, <<>>, "-", t.calls \o c.calls)
    ELSE Returned(NoExc, StripCRLF(t.raw), c.dev, t.wire \o c.wire, <<>>, "-",
                  t.calls \o c.calls)
CheckErrorMessage_SentinelIsError(t, c, command) ==
    IF c.exc.type # "none"
    THEN Returned(c.exc, EmptyStr, c.dev, t.wire \o c.wire, <<>>, "-", t.calls \o c.calls)
    ELSE IF IsEmptyStr(c.result)
    THEN Returned(NoExc, StripCRLF(t.raw), c.dev, t.wire \o c.wire,
                  <<Warning("NoResponse", EmptyStr)>>, "-", t.calls \o c.calls)
    ELSE Returned(NoExc, c.result, c.dev, t.wire \o c.wire,
                  <<Warning("InstrumentError", command)>>, c.by, t.calls \o c.calls)
CheckErrorMessage_NamesErrorQuery(t, c, command) ==
    IF c.exc.type # "none"
    THEN Returned(c.exc, EmptyStr, c.dev, t.wire \o c.wire, <<>>, "-", t.calls \o c.calls)
    ELSE IF IsEmptyStr(c.result)
    THEN Returned(NoExc, StripCRLF(t.raw), c.dev, t.wire \o c.wire,
                  <<Warning("NoResponse", EmptyStr)>>, "-", t.calls \o c.calls)
    ELSE IF c.result = no_error_string
    THEN Returned(NoExc, StripCRLF(t.raw), c.dev, t.wire \o c.wire, <<>>, "-",
                  t.calls \o c.calls)
    ELSE Returned(NoExc, c.result, c.dev, t.wire \o c.wire,
                  <<Warning("InstrumentError", error_command)>>, c.by, t.calls \o c.calls)
CheckErrorMessage(t, c, command) ==
    IF c.exc.type # "none"
    THEN Returned(c.exc, EmptyStr, c.dev, t.wire \o c.wire, <<>>, "-", t.calls \o c.calls)
    ELSE IF IsEmptyStr(c.result)
    THEN Returned(NoExc, StripCRLF(t.raw), c.dev, t.wire \o c.wire,
                  <<Warning("NoResponse", EmptyStr)>>, "-", t.calls \o c.calls)
    ELSE IF c.result = no_error_string
    THEN Returned(NoExc, StripCRLF(t.raw), c.dev, t.wire \o c.wire, <<>>, "-",
                  t.calls \o c.calls)
    ELSE Returned(NoExc, c.result, c.dev, t.wire \o c.wire,
                  <<Warning("InstrumentError", command)>>, c.by, t.calls \o c.calls)

\* what follows the round trip t of the command: the CRLF is stripped, the
\* response returned if escaped or equal to the no-error string, and checked
\* by one escaped error query otherwise
CheckResponce_ChecksErrorQuery(t, command, escape, envs) ==
    IF t.exc.type # "none"
    THEN Returned(t.exc, EmptyStr, t.dev, t.wire, <<>>, "-", t.calls)
    ELSE IF StripCRLF(t.raw) = no_error_string
    THEN Returned(NoExc, StripCRLF(t.raw), t.dev, t.wire, <<>>, t.by, t.calls)
    ELSE CheckErrorMessage(
             t, send_scpi_command(t.dev, error_command, FALSE, Tail(envs) \o <<IdealEnv>>),
             command)
CheckResponce_NoShortcut(t, command, escape, envs) ==
    IF t.exc.type # "none"
    THEN Returned(t.exc, EmptyStr, t.dev, t.wire, <<>>, "-", t.calls)
    ELSE IF escape
    THEN Returned(NoExc, StripCRLF(t.raw), t.dev, t.wire, <<>>, t.by, t.calls)
    ELSE CheckErrorMessage(
             t, send_scpi_command(t.dev, error_command, TRUE, Tail(envs) \o <<IdealEnv>>),
             command)
CheckResponce(t, command, escape, envs) ==
    IF t.exc.type # "none"
    THEN Returned(t.exc, EmptyStr, t.dev, t.wire, <<>>, "-", t.calls)
    ELSE IF escape
    THEN Returned(NoExc, StripCRLF(t.raw), t.dev, t.wire, <<>>, t.by, t.calls)
    ELSE IF StripCRLF(t.raw) = no_error_string
    THEN Returned(NoExc, StripCRLF(t.raw), t.dev, t.wire, <<>>, "-", t.calls)
    ELSE CheckErrorMessage(
             t, send_scpi_command(t.dev, error_command, TRUE, Tail(envs)), command)

send_scpi_command(dev, command, escape, envs) ==
    CheckResponce(_send_raw_scpi_command(dev, WithNewline(command), Head(envs)),
                  command, escape, envs)

-----------------------------------------------------------------------------
(* Inputs of the model *)

Instances == {"ps"}

\* a value well inside the factory range of each output and quantity
Mid ==
    [ P6V  |-> [voltage |-> (35 * Unit) \div 10, current |-> 1 * Unit],
      P25V |-> [voltage |-> (125 * Unit) \div 10, current |-> Unit \div 2],
      N25V |-> [voltage |-> -((125 * Unit) \div 10), current |-> Unit \div 2] ]

\* a step below the resolved digits that round() moves up to the next digit
OffGrid == 6 * Pow10(UnitDigits - 5)

\* values written: half a unit below and above the factory range, both factory
\* bounds, the middle value and a value that round() changes
Inputs(output, quantity) ==
    LET f == Factory[output][quantity]
        m == Mid[output][quantity]
    IN  {f.min - Unit \div 2, f.min, m, m + OffGrid, f.max, f.max + Unit \div 2}

\* the values written where the instrument and the line are what varies
Written(output, quantity) ==
    LET f == Factory[output][quantity]
        m == Mid[output][quantity]
    IN  {m + OffGrid, f.max, f.max + Unit \div 2}

\* the ranges a USER_* or MIN_*/MAX_* pair is given: the factory range, and
\* two ranges that are not nested in it and share the middle value only
Ranges(output, quantity) ==
    LET f == Factory[output][quantity]
        m == Mid[output][quantity]
    IN  {f, [min |-> f.min - Unit, max |-> m], [min |-> m, max |-> f.max + Unit]}

\* the fates of the round trips of one dispatch: of the command, and of the
\* error query when the command's round trip did not raise
E1 == {Env("none", TRUE, 0)} \cup {Env("none", FALSE, n) : n \in 0..MaxErrPerCmd}
E2 == {Env("none", FALSE, 0), Env("none", TRUE, 0)}
AnyEnvs ==
    {<<Env("open", FALSE, 0)>>, <<Env("write", FALSE, 0)>>}
        \cup {<<a, b>> : a \in E1, b \in E2}
IdealEnvs == {<<IdealEnv, IdealEnv>>}

\* the fates of a dispatch where every step of the transport may fail: the
\* port fails to open, to write or to read for the command or for the error
\* query, nothing answers, or the command raises errors in the instrument
Lost == Env("none", TRUE, 0)
OpsEnvs ==
    {<<Env(f, FALSE, 0)>> : f \in {"open", "write", "read"}}
        \cup {<<IdealEnv, Env(f, FALSE, 0)>> : f \in {"open", "read"}}
        \cup {<<Env("none", FALSE, n), IdealEnv>> : n \in 0..MaxErrPerCmd}
        \cup {<<IdealEnv, Lost>>, <<Lost, Lost>>}

-----------------------------------------------------------------------------
(* Session configuration *)

PARITY_NONE == "N"
PARITY_EVEN == "E"
PARITY_ODD == "O"

\* the _serial_* attributes of an instance
Session(port, baudrate, parity, data, timeout) ==
    [port |-> port, baudrate |-> baudrate, parity |-> parity, data |-> data,
     start |-> 1, end |-> 2, timeout |-> timeout, built |-> TRUE]

\* the class attributes an instance reads before __init__ assigned its own
ClassSession ==
    [port |-> "", baudrate |-> 0, parity |-> "", data |-> 0,
     start |-> 0, end |-> 0, timeout |-> 0, built |-> FALSE]

\* Keysight_E3631A(port) with every other argument left at its default
DefaultSession == Session("COM7", 9600, PARITY_NONE, 8, DEFAULT_TIMEOUT)

\* no caller dispatches step by step and nothing is on the line
NoCallers == <<>>
IdleLine == [log |-> <<>>, rx |-> <<>>]

\* the script works with constructed instances, one operation at a time
InitSession ==
    /\ serial = [i \in Instances |-> DefaultSession]
    /\ thr = NoCallers
    /\ tty = IdleLine

-----------------------------------------------------------------------------
(* State and operations *)

Obs(op, self, output, quantity, arg, exc, ret, d) ==
    [op |-> op, self |-> self, output |-> output, quantity |-> quantity, arg |-> arg,
     exc |-> exc, ret |-> ret, result |-> d.result, wire |-> d.wire,
     warns |-> d.warns, by |-> d.by, calls |-> d.calls]

\* an operation that dispatched nothing
NoDispatch == Returned(NoExc, EmptyStr, inst, <<>>, <<>>, "-", <<>>)

Zero == [ch \in Channels |-> [voltage |-> 0, current |-> 0]]

\* behaviours keep no history unless they start with one
NoHistory == [on |-> FALSE, past |-> <<>>]
\* what an operation left: its observation and the stored setpoints
Snapshot == [obs |-> last, sp |-> setpoint]

\* the attributes of the class, the supply as it is switched on
InitFields ==
    /\ setpoint = [i \in Instances |-> Zero]
    /\ inst = [apply |-> Zero, errq |-> <<>>]
    /\ acked = [i \in Instances |-> Zero]
    /\ last = Obs("init", "-", "-", "-", 0, NoExc, 0, NoDispatch)
    /\ nops = 0
    /\ hist = NoHistory

InitDriver ==
    /\ InitFields
    /\ InitSession

FactoryLimits == [ch \in Channels |-> [q \in Quantities |-> Factory[ch][q]]]

\* after import and construction every tier is the factory range
Init ==
    /\ InitDriver
    /\ userLim = FactoryLimits
    /\ instLim = [i \in Instances |-> FactoryLimits]

\* after the USER_* globals were set at process start and load_configuration
\* gave the instance its limits: one output and quantity has its own ranges
InitLimits ==
    /\ setpoint = [i \in Instances |-> Zero]
    /\ inst = [apply |-> Zero, errq |-> <<>>]
    /\ acked = [i \in Instances |-> Zero]
    /\ nops = 0
    /\ hist = NoHistory
    /\ InitSession
    /\ \E ch \in Channels, q \in Quantities :
       \E u \in Ranges(ch, q), i \in Ranges(ch, q) :
          /\ userLim = [FactoryLimits EXCEPT ![ch][q] = u]
          /\ instLim = [s \in Instances |-> [FactoryLimits EXCEPT ![ch][q] = i]]
          /\ last = Obs("init", "-", ch, "-", 0, NoExc, 0, NoDispatch)

\* one more operation of the calling script; no getter, setter, deleter or
\* query assigns a _serial_* attribute
Step ==
    /\ nops < (IF hist.on THEN MaxScript ELSE MaxOps)
    /\ nops' = nops + 1
    /\ hist' = IF hist.on THEN [hist EXCEPT !.past = Append(@, Snapshot)] ELSE hist
    /\ UNCHANGED <<serial, thr, tty>>

\* the command of a dispatch was written to the port
Transmitted(d) == d.calls # <<>> /\ Len(d.calls[1].port) >= 2 /\ d.calls[1].port[2] = "write"

\* the stored setpoints once the rounded value is assigned
NewSetpoints_OfClass(self, output, quantity, value) ==
    [i \in DOMAIN setpoint |->
        [setpoint[i] EXCEPT ![output][quantity] = round(value, _SUPPLY_RESOLVED_DIGITS)]]
NewSetpoints(self, output, quantity, value) ==
    [setpoint EXCEPT ![self][output][quantity] = round(value, _SUPPLY_RESOLVED_DIGITS)]

\* the APPLy command of a setter, from the stored values sp of its output
ApplyText(self, output, sp) ==
    _generate_apply_command(output, PyFloat(sp[self][output].voltage),
                            PyFloat(sp[self][output].current), FALSE).text

\* a setter that raised the ValueError chk of a limit check
Reject(self, output, quantity, value, chk) ==
    /\ last' = Obs("set", self, output, quantity, value, chk, 0, NoDispatch)
    /\ UNCHANGED <<setpoint, inst, acked>>

\* a setter past its limit checks: sp is stored, d the dispatch of the command
StoreAndSend_RollsBack(self, output, quantity, value, sp, d) ==
    /\ setpoint' = IF d.exc.type # "none" \/ d.warns # <<>> THEN setpoint ELSE sp
    /\ inst' = d.dev
    /\ acked' = IF Transmitted(d)
                THEN [acked EXCEPT ![self][output] = sp[self][output]]
                ELSE acked
    /\ last' = Obs("set", self, output, quantity, value, d.exc, 0, d)
StoreAndSend(self, output, quantity, value, sp, d) ==
    /\ setpoint' = sp
    /\ inst' = d.dev
    /\ acked' = IF Transmitted(d)
                THEN [acked EXCEPT ![self][output] = sp[self][output]]
                ELSE acked
    /\ last' = Obs("set", self, output, quantity, value, d.exc, 0, d)

\* set_<output>_<quantity>(value)
set_value_StoreFirst(self, output, quantity, value, envs) ==
    LET chk == LimitCheck(self, output, quantity, value)
        sp == [setpoint EXCEPT ![self][output][quantity] =
                  round(value, _SUPPLY_RESOLVED_DIGITS)]
    IN  /\ Step
        /\ setpoint' = sp
        /\ last' = Obs("set", self, output, quantity, value, chk, 0, NoDispatch)
        /\ UNCHANGED <<userLim, instLim, inst, acked>>
set_value_SkipsRepeat(self, output, quantity, value, envs) ==
    LET chk == LimitCheck(self, output, quantity, value)
        rounded == round(value, _SUPPLY_RESOLVED_DIGITS)
        sp == [setpoint EXCEPT ![self][output][quantity] = rounded]
        g == _generate_apply_command(output, PyFloat(sp[self][output].voltage),
                                     PyFloat(sp[self][output].current), FALSE)
        d == send_scpi_command(Age(inst), g.text, FALSE, envs)
    IN  /\ Step
        /\ IF chk.type # "none" \/ sp = setpoint
           THEN /\ last' = Obs("set", self, output, quantity, value, chk, 0, NoDispatch)
                /\ UNCHANGED <<setpoint, inst, acked>>
           ELSE /\ setpoint' = sp
                /\ inst' = d.dev
                /\ acked' = [acked EXCEPT ![self][output] = sp[self][output]]
                /\ last' = Obs("set", self, output, quantity, value, d.exc, 0, d)
        /\ UNCHANGED <<userLim, instLim>>
set_value_SendsWrittenOnly(self, output, quantity, value, envs) ==
    LET chk == LimitCheck(self, output, quantity, value)
        rounded == round(value, _SUPPLY_RESOLVED_DIGITS)
        sp == [setpoint EXCEPT ![self][output][quantity] = rounded]
        g == _generate_apply_command(output,
                 PyFloat(IF quantity = "voltage" THEN rounded ELSE 0),
                 PyFloat(IF quantity = "current" THEN rounded ELSE 0), FALSE)
        d == send_scpi_command(Age(inst), g.text, FALSE, envs)
    IN  /\ Step
        /\ IF chk.type # "none"
           THEN /\ last' = Obs("set", self, output, quantity, value, chk, 0, NoDispatch)
                /\ UNCHANGED <<setpoint, inst, acked>>
           ELSE /\ setpoint' = sp
                /\ inst' = d.dev
                /\ acked' = IF Transmitted(d)
                            THEN [acked EXCEPT ![self][output] = sp[self][output]]
                            ELSE acked
                /\ last' = Obs("set", self, output, quantity, value, d.exc, 0, d)
        /\ UNCHANGED <<userLim, instLim>>
set_value_Latched(self, output, quantity, value, envs) ==
    LET chk == LimitCheck(self, output, quantity, value)
        rounded == round(value, _SUPPLY_RESOLVED_DIGITS)
        sp == [setpoint EXCEPT ![self][output][quantity] = rounded]
        g == _generate_apply_command(output, PyFloat(sp[self][output].voltage),
                                     PyFloat(sp[self][output].current), FALSE)
        d == send_scpi_command(Age(inst), g.text, FALSE, envs)
    IN  /\ Step
        /\ IF chk.type # "none" \/ last.exc.type # "none" \/ last.warns # <<>>
           THEN /\ last' = Obs("set", self, output, quantity, value, chk, 0, NoDispatch)
                /\ UNCHANGED <<setpoint, inst, acked>>
           ELSE /\ setpoint' = sp
                /\ inst' = d.dev
                /\ acked' = IF Transmitted(d)
                            THEN [acked EXCEPT ![self][output] = sp[self][output]]
                            ELSE acked
                /\ last' = Obs("set", self, output, quantity, value, d.exc, 0, d)
        /\ UNCHANGED <<userLim, instLim>>
set_value(self, output, quantity, value, envs) ==
    /\ Step
    /\ IF LimitCheck(self, output, quantity, value).type # "none"
       THEN Reject(self, output, quantity, value,
                   LimitCheck(self, output, quantity, value))
       ELSE StoreAndSend(self, output, quantity, value,
                         NewSetpoints(self, output, quantity, value),
                         send_scpi_command(
                             Age(inst),
                             ApplyText(self, output,
                                       NewSetpoints(self, output, quantity, value)),
                             FALSE, envs))
    /\ UNCHANGED <<userLim, instLim>>

UnpackError ==
    [type |-> "ValueError", tier |-> "unpack", output |-> "-", quantity |-> "-",
     value |-> 0, min |-> 0, max |-> 0, cls |-> 0, ps |-> 0]
AssertionError(output, quantity, cls, ps) ==
    [type |-> "AssertionError", tier |-> "-", output |-> output, quantity |-> quantity,
     value |-> 0, min |-> 0, max |-> 0, cls |-> cls, ps |-> ps]

\* the second field of a result that kept an ending: strip('"') leaves the
\* closing quote, which is no longer the last character, and float() fails
QuoteLeft(quantity, result) ==
    quantity = "current" /\ result.tail # "" /\ result.fields[2].quoted

\* get_<output>_<quantity>(): [exc, ret] from the dispatcher's result
ParseNoCompare(self, output, quantity, result) ==
    LET fields == result.fields
        f == StripQuotes(fields[IF quantity = "voltage" THEN 1 ELSE 2])
    IN  IF Len(fields) # 2 THEN [exc |-> UnpackError, ret |-> 0]
        ELSE IF ~IsNumeric(f) \/ QuoteLeft(quantity, result)
        THEN [exc |-> FloatError, ret |-> 0]
        ELSE [exc |-> NoExc, ret |-> float(f)]
ParseAndCompare(self, output, quantity, result) ==
    LET fields == result.fields
        f == StripQuotes(fields[IF quantity = "voltage" THEN 1 ELSE 2])
    IN  IF Len(fields) # 2 THEN [exc |-> UnpackError, ret |-> 0]
        ELSE IF ~IsNumeric(f) \/ QuoteLeft(quantity, result)
        THEN [exc |-> FloatError, ret |-> 0]
        ELSE IF ~isclose(float(f), setpoint[self][output][quantity])
        THEN [exc |-> AssertionError(output, quantity,
                                     setpoint[self][output][quantity], float(f)),
              ret |-> 0]
        ELSE [exc |-> NoExc, ret |-> float(f)]

\* the APPLy? command of a getter
QueryText(output) == _generate_apply_command(output, None, None, TRUE).text

\* a getter after the dispatch d of its query, p being the parsed result
Answer_ReturnsDivergent(self, output, quantity, d, p) ==
    /\ inst' = d.dev
    /\ last' = IF d.exc.type # "none"
               THEN Obs("get", self, output, quantity, 0, d.exc, 0, d)
               ELSE IF p.exc.type = "AssertionError"
               THEN Obs("get", self, output, quantity, 0, NoExc, p.exc.ps, d)
               ELSE Obs("get", self, output, quantity, 0, p.exc, p.ret, d)
Answer(self, output, quantity, d, p) ==
    /\ inst' = d.dev
    /\ last' = IF d.exc.type # "none"
               THEN Obs("get", self, output, quantity, 0, d.exc, 0, d)
               ELSE Obs("get", self, output, quantity, 0, p.exc, p.ret, d)
Reading(self, output, quantity, d) ==
    Answer(self, output, quantity, d, ParseAndCompare(self, output, quantity, d.result))

get_value_StoresEcho(self, output, quantity, envs) ==
    LET g == _generate_apply_command(output, None, None, TRUE)
        d == send_scpi_command(Age(inst), g.text, FALSE, envs)
        p == ParseNoCompare(self, output, quantity, d.result)
    IN  /\ Step
        /\ inst' = d.dev
        /\ setpoint' = IF d.exc.type = "none" /\ p.exc.type = "none"
                       THEN [setpoint EXCEPT ![self][output][quantity] = p.ret]
                       ELSE setpoint
        /\ last' = IF d.exc.type # "none"
                   THEN Obs("get", self, output, quantity, 0, d.exc, 0, d)
                   ELSE Obs("get", self, output, quantity, 0, p.exc, p.ret, d)
        /\ UNCHANGED <<userLim, instLim, acked>>
get_value(self, output, quantity, envs) ==
    /\ Step
    /\ Reading(self, output, quantity,
               send_scpi_command(Age(inst), QueryText(output), FALSE, envs))
    /\ UNCHANGED <<setpoint, userLim, instLim, acked>>

RuntimeError(output, quantity) ==
    [type |-> "RuntimeError", tier |-> "delete", output |-> output, quantity |-> quantity,
     value |-> 0, min |-> 0, max |-> 0, cls |-> 0, ps |-> 0]

\* del_<output>_<quantity>(): del power_supply.<output>_<quantity>
del_value_Resets(self, output, quantity) ==
    /\ Step
    /\ setpoint' = [setpoint EXCEPT ![self][output][quantity] = 0]
    /\ last' = Obs("del", self, output, quantity, 0, NoExc, 0, NoDispatch)
    /\ UNCHANGED <<userLim, instLim, inst, acked>>
del_value(self, output, quantity) ==
    /\ Step
    /\ last' = Obs("del", self, output, quantity, 0, RuntimeError(output, quantity), 0,
                   NoDispatch)
    /\ UNCHANGED <<setpoint, userLim, instLim, inst, acked>>

\* error() after the dispatch d of the error query; the observation keeps the
\* output the script works on
Queried(self, d) ==
    /\ inst' = d.dev
    /\ last' = Obs("error", self, last.output, "-", 0, d.exc, 0, d)

\* error(): the error query dispatched as any other command
error(self, envs) ==
    /\ Step
    /\ Queried(self, send_scpi_command(Age(inst), error_command, FALSE, envs))
    /\ UNCHANGED <<setpoint, userLim, instLim, acked>>

\* USER_<MIN|MAX>_<output>_<quantity> = value, by the code that imported the module
set_user_limit(output, quantity, side, value) ==
    /\ Step
    /\ userLim' = [userLim EXCEPT ![output][quantity][side] = value]
    /\ last' = Obs("user_limit", "-", output, quantity, value, NoExc, 0, NoDispatch)
    /\ UNCHANGED <<setpoint, instLim, inst, acked>>

\* power_supply.<MIN|MAX>_<output>_<quantity> = value
set_instance_limit_OfClass(self, output, quantity, side, value) ==
    /\ Step
    /\ instLim' = [i \in DOMAIN instLim |->
                      [instLim[i] EXCEPT ![output][quantity][side] = value]]
    /\ last' = Obs("instance_limit", self, output, quantity, value, NoExc, 0, NoDispatch)
    /\ UNCHANGED <<setpoint, userLim, inst, acked>>
set_instance_limit(self, output, quantity, side, value) ==
    /\ Step
    /\ instLim' = [instLim EXCEPT ![self][output][quantity][side] = value]
    /\ last' = Obs("instance_limit", self, output, quantity, value, NoExc, 0, NoDispatch)
    /\ UNCHANGED <<setpoint, userLim, inst, acked>>

\* somebody turns a knob at the front panel of the supply
front_panel(output, quantity, value) ==
    /\ Step
    /\ inst' = [inst EXCEPT !.apply[output][quantity] = Format6(value).val]
    /\ last' = Obs("front_panel", "-", output, quantity, value, NoExc, 0, NoDispatch)
    /\ UNCHANGED <<setpoint, userLim, instLim, acked>>

InputValues == [ch \in Channels |-> [q \in Quantities |-> Inputs(ch, q)]]
WrittenValues == [ch \in Channels |-> [q \in Quantities |-> Written(ch, q)]]

\* a value round() changes and a value above the factory range
OpsValues ==
    [ch \in Channels |-> [q \in Quantities |->
        {Mid[ch][q] + OffGrid, Factory[ch][q].max + Unit \div 2}]]
\* two values inside every range
ScriptValues ==
    [ch \in Channels |-> [q \in Quantities |-> {Mid[ch][q], Mid[ch][q] + OffGrid}]]

\* one behaviour works on one output of the supply
Focus(output) == last.output \in {"-", output}

\* values: [output -> [quantity -> the values written]]
Set(values, envset) ==
    \E self \in Instances, output \in Channels, quantity \in Quantities :
    \E value \in values[output][quantity] :
    \E envs \in IF LimitCheck(self, output, quantity, value).type # "none"
                THEN IdealEnvs ELSE envset :
        Focus(output) /\ set_value(self, output, quantity, value, envs)

Get(envset) ==
    \E self \in Instances, output \in Channels, quantity \in Quantities, envs \in envset :
        Focus(output) /\ get_value(self, output, quantity, envs)

SetUserLimit ==
    \E output \in Channels, quantity \in Quantities, side \in {"min", "max"} :
    \E r \in Ranges(output, quantity) :
        Focus(output) /\ set_user_limit(output, quantity, side, r[side])

SetInstanceLimit ==
    \E self \in Instances, output \in Channels, quantity \in Quantities :
    \E side \in {"min", "max"}, r \in Ranges(output, quantity) :
        Focus(output) /\ set_instance_limit(self, output, quantity, side, r[side])

FrontPanel ==
    \E output \in Channels, quantity \in Quantities :
        Focus(output) /\ front_panel(output, quantity, Mid[output][quantity])

Del ==
    \E self \in Instances, output \in Channels, quantity \in Quantities :
        Focus(output) /\ del_value(self, output, quantity)

Error(envset) ==
    \E self \in Instances, envs \in envset : error(self, envs)

Next ==
    \/ Set(WrittenValues, AnyEnvs)
    \/ Get(AnyEnvs)
    \/ FrontPanel

Spec == Init /\ [][Next]_vars

NextLimits ==
    \/ Set(InputValues, IdealEnvs)
    \/ SetUserLimit
    \/ SetInstanceLimit

SpecLimits == InitLimits /\ [][NextLimits]_vars

\* every public operation, on a line and an instrument that fail in every way
NextOps ==
    \/ Set(OpsValues, OpsEnvs)
    \/ Get(OpsEnvs)
    \/ Del
    \/ Error(OpsEnvs)
    \/ FrontPanel

SpecOps == Init /\ [][NextOps]_vars

\* a script of writes and reads on an instrument that echoes, history kept
InitScript ==
    /\ setpoint = [i \in Instances |-> Zero]
    /\ inst = [apply |-> Zero, errq |-> <<>>]
    /\ acked = [i \in Instances |-> Zero]
    /\ last = Obs("init", "-", "-", "-", 0, NoExc, 0, NoDispatch)
    /\ nops = 0
    /\ hist = [on |-> TRUE, past |-> <<>>]
    /\ InitSession
    /\ userLim = FactoryLimits
    /\ instLim = [i \in Instances |-> FactoryLimits]

NextScript ==
    \/ Set(ScriptValues, IdealEnvs)
    \/ Get(IdealEnvs)

SpecScript == InitScript /\ [][NextScript]_vars

-----------------------------------------------------------------------------
(* The dispatcher step by step: a caller inside send_scpi_command writes a  *)
(* line to the port and reads a line from it in separate steps, so that the *)
(* steps of several callers interleave.  The port is one serial line: what  *)
(* the supply answers is pending on it until some caller reads a line.      *)

\* dispatches of one caller in a behaviour
MaxDispatch == 2

\* the commands the callers dispatch: of a setter, of a getter, beep(), error()
LineCommands ==
    {_generate_apply_command("P6V", PyFloat(Mid["P6V"].voltage),
                             PyFloat(Mid["P6V"].current), FALSE).text,
     QueryText("P6V"), beep_command, error_command}

\* what happens to the command of a dispatch: nothing listens, or the supply
\* takes it and records nerr errors
LineFates == {Lost} \cup {Env("none", FALSE, n) : n \in 0..MaxErrPerCmd}

NoTrip ==
    [exc |-> NoExc, dev |-> inst, wire |-> <<>>, raw |-> EmptyStr, by |-> "-", calls |-> <<>>]

\* a caller outside send_scpi_command
IdleCaller ==
    [pc |-> "idle", command |-> EmptyStr, escape |-> FALSE, stage |-> 0, fate |-> IdealEnv,
     t |-> NoTrip, out |-> NoDispatch, done |-> 0]

\* the errors the command of caller c has just recorded are its own
Owned(dev, c) ==
    [dev EXCEPT !.errq = [i \in DOMAIN dev.errq |->
        IF dev.errq[i].by = "current" THEN [dev.errq[i] EXCEPT !.by = c]
        ELSE dev.errq[i]]]

\* the line a caller writes next: its command, then the error query
Bytes(c) == WithNewline(IF thr[c].stage = 1 THEN thr[c].command ELSE error_command)

\* the fate of the line written next: the error query is lost iff the command was
FateOf(c) == IF thr[c].stage = 1 THEN thr[c].fate ELSE Env("none", thr[c].fate.lost, 0)

LogEntry(ev, c, cmd) ==
    [ev |-> ev, who |-> c, cmd |-> cmd, stage |-> thr[c].stage, n |-> thr[c].done + 1]

\* the line pending on the port, or nothing when the timeout elapses
Pending == IF tty.rx = <<>> THEN [text |-> EmptyStr, by |-> "-"] ELSE Head(tty.rx)

\* the round trip of a caller whose readline returned
TripOf(c) ==
    [exc |-> NoExc, dev |-> inst, wire |-> <<[cmd |-> Bytes(c), raw |-> Pending.text]>>,
     raw |-> Pending.text, by |-> Pending.by,
     calls |-> <<Call(Bytes(c), PortEvents(IdealEnv))>>]

\* the error query follows unless escaped or the response is the no-error string
NeedsErrorQuery(t, escape) ==
    t.exc.type = "none" /\ ~escape /\ StripCRLF(t.raw) # no_error_string

\* send_scpi_command(command) is entered
enter(c, command, fate, budget) ==
    /\ thr[c].pc = "idle"
    /\ thr[c].done < budget
    /\ thr' = [thr EXCEPT ![c] = [@ EXCEPT !.pc = "write", !.command = command,
                                            !.escape = FALSE, !.stage = 1, !.fate = fate,
                                            !.t = NoTrip, !.out = NoDispatch]]
    /\ UNCHANGED <<inst, tty>>

\* where a caller stands after ser.write: at ser.readline
AfterWrite_Pipelined(t) ==
    IF t.stage = 1 THEN [t EXCEPT !.stage = 2] ELSE [t EXCEPT !.pc = "readline"]
AfterWrite(t) == [t EXCEPT !.pc = "readline"]

\* ser.write(bytestring), r being what the other end does with the line
Written_(c, r) ==
    /\ inst' = Owned(r.dev, c)
    /\ tty' = [log |-> Append(tty.log, LogEntry("write", c, Bytes(c))),
               rx |-> IF IsEmptyStr(r.reply) THEN tty.rx
                      ELSE Append(tty.rx, [text |-> Line(r.reply), by |-> r.by])]
    /\ thr' = [thr EXCEPT ![c] = AfterWrite(@)]

ser_write(c) ==
    /\ thr[c].pc = "write"
    /\ Written_(c, Reaction(inst, Bytes(c), FateOf(c)))

\* where a caller stands after ser.readline returned round trip t
AfterReadline(c, t) ==
    IF thr[c].stage = 1 /\ NeedsErrorQuery(t, thr[c].escape)
    THEN [thr[c] EXCEPT !.pc = "write", !.stage = 2, !.t = t]
    ELSE [thr[c] EXCEPT
             !.pc = "idle", !.done = @ + 1,
             !.out = IF thr[c].stage = 1
                     THEN CheckResponce(t, thr[c].command, TRUE, <<>>)
                     ELSE CheckErrorMessage(
                              thr[c].t, CheckResponce(t, error_command, TRUE, <<>>),
                              thr[c].command)]

\* ser.readline() and what the dispatcher does with the line
ser_readline(c) ==
    /\ thr[c].pc = "readline"
    /\ tty' = [log |-> Append(tty.log, LogEntry("readline", c, Bytes(c))),
               rx |-> IF tty.rx = <<>> THEN <<>> ELSE Tail(tty.rx)]
    /\ thr' = [thr EXCEPT ![c] = AfterReadline(c, TripOf(c))]
    /\ UNCHANGED inst

Enter(budget) ==
    \E c \in DOMAIN thr, command \in LineCommands, fate \in LineFates :
        /\ enter(c, command, fate, budget)
        /\ UNCHANGED <<setpoint, userLim, instLim, last, acked, nops, hist, serial>>

SerWrite ==
    \E c \in DOMAIN thr :
        /\ ser_write(c)
        /\ UNCHANGED <<setpoint, userLim, instLim, last, acked, nops, hist, serial>>

SerReadline ==
    \E c \in DOMAIN thr :
        /\ ser_readline(c)
        /\ UNCHANGED <<setpoint, userLim, instLim, last, acked, nops, hist, serial>>

\* one caller, as the spec requires
InitOneCaller ==
    /\ InitFields
    /\ userLim = FactoryLimits
    /\ instLim = [i \in Instances |-> FactoryLimits]
    /\ serial = [i \in Instances |-> DefaultSession]
    /\ thr = [c \in {"a"} |-> IdleCaller]
    /\ tty = IdleLine

NextOneCaller ==
    \/ Enter(MaxDispatch)
    \/ SerWrite
    \/ SerReadline

SpecOneCaller == InitOneCaller /\ [][NextOneCaller]_vars

\* two callers dispatch one command each on the same port, unserialised
InitTwoCallers ==
    /\ InitFields
    /\ userLim = FactoryLimits
    /\ instLim = [i \in Instances |-> FactoryLimits]
    /\ serial = [i \in Instances |-> DefaultSession]
    /\ thr = [c \in {"a", "b"} |-> IdleCaller]
    /\ tty = IdleLine

NextTwoCallers ==
    \/ Enter(1)
    \/ SerWrite
    \/ SerReadline

SpecTwoCallers == InitTwoCallers /\ [][NextTwoCallers]_vars

-----------------------------------------------------------------------------
(* Construction *)

\* str(parity).lower() on the strings of the model
Lower(s) ==
    CASE s = "NONE" -> "none"
      [] s = "EVEN" -> "even"
      [] s = "ODD" -> "odd"
      [] OTHER -> s

\* the parity __init__ stores, or "" where it raises
ParityOf(parity) ==
    CASE parity.k = "None" -> PARITY_NONE
      [] parity.k = "str" /\ Lower(parity.s) = "none" -> PARITY_NONE
      [] parity.k = "str" /\ Lower(parity.s) = "even" -> PARITY_EVEN
      [] parity.k = "str" /\ Lower(parity.s) = "odd" -> PARITY_ODD
      [] OTHER -> ""

ParityError ==
    [type |-> "ValueError", tier |-> "parity", output |-> "-", quantity |-> "-",
     value |-> 0, min |-> 0, max |-> 0, cls |-> 0, ps |-> 0]
\* None < 1.0
TypeError ==
    [type |-> "TypeError", tier |-> "timeout", output |-> "-", quantity |-> "-",
     value |-> 0, min |-> 0, max |-> 0, cls |-> 0, ps |-> 0]

\* the timeout after the check that it is at least one second
CheckedTimeout_Kept(timeout) == timeout
CheckedTimeout(timeout) ==
    IF timeout.v < Unit THEN PyFloat(DEFAULT_TIMEOUT * Unit) ELSE timeout

\* int(x) of a number: the fraction is cut off
int(x) == IF x.v >= 0 THEN x.v \div Unit ELSE -((-x.v) \div Unit)

\* the arguments of a construction
Args(port, baudrate, parity, data, timeout, sound) ==
    [port |-> port, baudrate |-> baudrate, parity |-> parity, data |-> data,
     timeout |-> timeout, sound |-> sound]

\* the dispatches a and b one after the other: what b returned or raised, the
\* round trips, calls and warnings of both
Then(a, b) ==
    Returned(b.exc, b.result, b.dev, a.wire \o b.wire, a.warns \o b.warns, b.by,
             a.calls \o b.calls)

\* before the first dispatch: the warning of the timeout check, if any
Begin(timeout) ==
    Returned(NoExc, EmptyStr, inst, <<>>,
             IF timeout.v < Unit THEN <<Warning("Timeout", EmptyStr)>> ELSE <<>>,
             "-", <<>>)

\* beep() after the dispatches d, unless they raised
beep(d, f) ==
    IF d.exc.type # "none" THEN d
    ELSE Then(d, send_scpi_command(Age(d.dev), beep_command, FALSE, f.rest))

\* remote_mode() after the dispatches d
remote_mode(d, f) ==
    Then(d, send_scpi_command(Age(d.dev), remote_command, FALSE, f.rest))

\* the warning that nothing responds on the port
NoInstrument(d) == [d EXCEPT !.warns = @ \o <<Warning("NoInstrument", EmptyStr)>>]

\* the branch on the two lengths: warn, or set the supply into remote mode
Decide(d, present, f) ==
    IF d.exc.type # "none" THEN d
    ELSE IF present THEN remote_mode(d, f) ELSE NoInstrument(d)

\* the right operand of the and: i is the dispatch of *IDN?
Identity_Ignored(v, i, f) == Decide(Then(v, i), FALSE, f)
Identity(v, i, f) == Decide(Then(v, i), ~IsEmptyStr(i.result), f)

\* the left operand of the and: v is the dispatch of version(); the right
\* operand is evaluated only if the left one holds
Probe_AlwaysIdentity(v, f) ==
    IF v.exc.type # "none" THEN v
    ELSE IF ~IsEmptyStr(v.result)
    THEN Decide(Then(v, send_scpi_command(Age(v.dev), idn_command, FALSE, f.idn)), TRUE, f)
    ELSE Identity(v, send_scpi_command(Age(v.dev), idn_command, FALSE, f.idn), f)
Probe(v, f) ==
    IF v.exc.type # "none" THEN v
    ELSE IF ~IsEmptyStr(v.result) THEN Decide(v, TRUE, f)
    ELSE Identity(v, send_scpi_command(Age(v.dev), idn_command, FALSE, f.idn), f)

\* the melody cut short by one beep
Melody_Twice(d, sound, f) == IF sound THEN beep(beep(d, f), f) ELSE d

\* the three beeps, unless _sound is False
Melody(d, sound, f) == IF sound THEN beep(beep(beep(d, f), f), f) ELSE d

\* __init__ raised before it assigned anything
Failed(self, a, exc) ==
    /\ last' = Obs("__init__", self, "-", "-", a, exc, 0, NoDispatch)
    /\ UNCHANGED <<inst, serial>>

\* __init__ past its argument checks: the attributes are assigned, d are the
\* dispatches that follow; the caller holds an instance if none of them raised
Assigned(self, a, d) ==
    /\ inst' = d.dev
    /\ serial' = [serial EXCEPT ![self] =
                      [Session(a.port, a.baudrate, ParityOf(a.parity), a.data,
                               int(CheckedTimeout(a.timeout)))
                          EXCEPT !.built = (d.exc.type = "none")]]
    /\ last' = Obs("__init__", self, "-", "-", a, d.exc, 0, d)

\* Keysight_E3631A(port, baudrate, parity, data, timeout, _sound); f are the
\* fates of the dispatches: of version(), of *IDN? and of the rest.  It is the
\* first statement of a script, which ends there if the construction raises
__init__(self, a, f) ==
    /\ nops = 0
    /\ nops' = nops + 1
    /\ ~serial[self].built
    /\ IF ParityOf(a.parity) = "" THEN Failed(self, a, ParityError)
       ELSE IF a.timeout.k = "None" THEN Failed(self, a, TypeError)
       ELSE Assigned(self, a,
                Melody(Probe(Then(Begin(a.timeout),
                                  send_scpi_command(Age(inst), version_command, FALSE,
                                                    f.version)),
                             f),
                       a.sound, f))
    /\ UNCHANGED <<setpoint, userLim, instLim, acked, hist, thr, tty>>

\* the arguments given: every parity spelling, timeouts below, at and above
\* one second, none at all, and the default of an omitted timeout
ConstructArgs ==
    {Args("COM7", 9600, parity, 8, timeout, sound) :
        parity \in {None, PyString("none"), PyString("EVEN"), PyString("odd"),
                    PyString("mark")},
        timeout \in {None, PyFloat(-Unit), PyFloat(0), PyFloat(Unit \div 2), PyFloat(Unit),
                     PyFloat((3 * Unit) \div 2), PyFloat(2 * Unit),
                     PyFloat(DEFAULT_TIMEOUT * Unit)},
        sound \in BOOLEAN}

\* the fates of the dispatches of a construction: the supply answers, nothing
\* is connected, it answers the error query only, the version query records
\* an error, the port cannot be opened
OpenFails == <<Env("open", FALSE, 0)>>
ConstructFates ==
    [version : {<<IdealEnv, IdealEnv>>, <<Lost, Lost>>, <<Lost, IdealEnv>>,
                <<Env("none", FALSE, 1), IdealEnv>>, OpenFails},
     idn : {<<IdealEnv, IdealEnv>>, <<Lost, Lost>>, OpenFails},
     rest : {<<IdealEnv, IdealEnv>>, <<Lost, Lost>>, OpenFails}]

Construct ==
    \E self \in Instances, a \in ConstructArgs, f \in ConstructFates : __init__(self, a, f)

\* the operations of a script that holds an instance
Use(op) == (\A i \in Instances : serial[i].built) /\ op

\* before any instance was constructed
InitClass ==
    /\ InitFields
    /\ userLim = FactoryLimits
    /\ instLim = [i \in Instances |-> FactoryLimits]
    /\ serial = [i \in Instances |-> ClassSession]
    /\ thr = NoCallers
    /\ tty = IdleLine

NextSession ==
    \/ Construct
    \/ Use(Set(ScriptValues, IdealEnvs))
    \/ Use(Get(IdealEnvs))
    \/ Use(Error(IdealEnvs))

SpecSession == InitClass /\ [][NextSession]_vars

-----------------------------------------------------------------------------
(* load_configuration *)

\* the keys config[...] reads
RequiredKeys == {"port", "baudrate", "parity", "data", "timeout"}

KeyError ==
    [type |-> "KeyError", tier |-> "serial", output |-> "-", quantity |-> "-",
     value |-> 0, min |-> 0, max |-> 0, cls |-> 0, ps |-> 0]

\* a configuration dictionary: the serial keys it has, their values, and its
\* MIN_*/MAX_* entries, each [output, quantity, side, value]
Configuration(has, a, limits) == [has |-> has, a |-> a, limits |-> limits]

\* config.get('<MIN|MAX>_<output>_<quantity>', _FACTORY_<...>)
config_get_Factory(config, output, quantity, side) == Factory[output][quantity][side]
config_get(config, output, quantity, side) ==
    IF \E o \in config.limits : o.output = output /\ o.quantity = quantity /\ o.side = side
    THEN (CHOOSE o \in config.limits :
              o.output = output /\ o.quantity = quantity /\ o.side = side).value
    ELSE Factory[output][quantity][side]

\* the twelve values assigned to power_supply.MIN_* and power_supply.MAX_*
LimitsOf(config) ==
    [output \in Channels |-> [quantity \in Quantities |->
        [min |-> config_get(config, output, quantity, "min"),
         max |-> config_get(config, output, quantity, "max")]]]

\* the dispatches of Keysight_E3631A(port, baudrate, parity, data, timeout):
\* _sound is left at its default
Constructed(a, f) ==
    Melody(Probe(Then(Begin(a.timeout),
                      send_scpi_command(Age(inst), version_command, FALSE, f.version)),
                 f),
           TRUE, f)

\* load_configuration raised before the instance existed
NotLoaded(self, config, exc) ==
    /\ last' = Obs("load_configuration", self, "-", "-", config, exc, 0, NoDispatch)
    /\ UNCHANGED <<inst, serial, instLim>>

\* the constructor ran its dispatches d; the limits are assigned to the
\* instance and the instance is returned unless the constructor raised
Loaded(self, config, d) ==
    /\ inst' = d.dev
    /\ serial' = [serial EXCEPT ![self] =
                      [Session(config.a.port, config.a.baudrate, ParityOf(config.a.parity),
                               config.a.data, int(CheckedTimeout(config.a.timeout)))
                          EXCEPT !.built = (d.exc.type = "none")]]
    /\ instLim' = IF d.exc.type = "none"
                  THEN [instLim EXCEPT ![self] = LimitsOf(config)]
                  ELSE instLim
    /\ last' = Obs("load_configuration", self, "-", "-", config, d.exc, 0, d)

\* Keysight_E3631A.load_configuration(configuration), the first statement of
\* a script
load_configuration(self, config, f) ==
    /\ nops = 0
    /\ nops' = nops + 1
    /\ ~serial[self].built
    /\ IF ~(RequiredKeys \subseteq config.has) THEN NotLoaded(self, config, KeyError)
       ELSE IF ParityOf(config.a.parity) = "" THEN NotLoaded(self, config, ParityError)
       ELSE IF config.a.timeout.k = "None" THEN NotLoaded(self, config, TypeError)
       ELSE Loaded(self, config, Constructed(config.a, f))
    /\ UNCHANGED <<setpoint, userLim, acked, hist, thr, tty>>

\* the MIN_*/MAX_* entries of a configuration: none, one bound, or both
\* bounds of one output and quantity, inside and outside the factory range
LimitEntry(output, quantity, side, value) ==
    [output |-> output, quantity |-> quantity, side |-> side, value |-> value]
EntryValues(output, quantity) ==
    {Mid[output][quantity], Factory[output][quantity].min - Unit,
     Factory[output][quantity].max + Unit}
EntriesOf(output, quantity) ==
    {{LimitEntry(output, quantity, side, v)} :
        side \in {"min", "max"}, v \in EntryValues(output, quantity)}
        \cup {{LimitEntry(output, quantity, "min", Mid[output][quantity]),
                LimitEntry(output, quantity, "max", Mid[output][quantity] + OffGrid)}}
LimitEntries ==
    {{}} \cup UNION {EntriesOf(ch, q) : ch \in Channels, q \in Quantities}

\* the configurations: all serial keys or all but one, a parity that is
\* accepted or not, the timeout of the sample script or none
Configurations ==
    {Configuration(has, Args("COM7", 9600, parity, 8, timeout, TRUE), limits) :
        has \in {RequiredKeys} \cup {RequiredKeys \ {k} : k \in RequiredKeys},
        parity \in {PyString("none"), PyString("mark")},
        timeout \in {PyFloat(2 * Unit), None},
        limits \in LimitEntries}

LoadFates ==
    [version : {<<IdealEnv, IdealEnv>>, <<Lost, Lost>>, OpenFails},
     idn : {<<Lost, Lost>>},
     rest : {<<IdealEnv, IdealEnv>>, <<Lost, Lost>>}]

LoadConfiguration ==
    \E self \in Instances, config \in Configurations, f \in LoadFates :
        load_configuration(self, config, f)

NextLoad ==
    \/ LoadConfiguration
    \/ Use(Set(InputValues, IdealEnvs))

SpecLoad == InitClass /\ [][NextLoad]_vars

-----------------------------------------------------------------------------
(* The error queue read by error() *)

\* the queues the supply may hold when a script starts: errors made at the
\* front panel or left by commands of an earlier script
QueueEntries == {[code |-> ErrCode(k), by |-> b] : k \in 1..2, b \in {"earlier", "panel"}}
Queues == UNION {[1..n -> QueueEntries] : n \in 0..MaxErrQ}

InitErrorQueue ==
    /\ \E q \in Queues : inst = [apply |-> Zero, errq |-> q]
    /\ setpoint = [i \in Instances |-> Zero]
    /\ acked = [i \in Instances |-> Zero]
    /\ last = Obs("init", "-", "-", "-", 0, NoExc, 0, NoDispatch)
    /\ nops = 0
    /\ hist = NoHistory
    /\ InitSession
    /\ userLim = FactoryLimits
    /\ instLim = [i \in Instances |-> FactoryLimits]

NextErrorQueue ==
    \/ Error(OpsEnvs)
    \/ Get(IdealEnvs)

SpecErrorQueue == InitErrorQueue /\ [][NextErrorQueue]_vars

-----------------------------------------------------------------------------
(* Writes of values off the resolved digits *)

\* a step below the resolved digits that round() drops
BelowGrid == 3 * Pow10(UnitDigits - 5)

\* values on the resolved digits, values that round() moves up or down to
\* them, and values a step outside the factory range that round() would move
\* onto its bounds
RoundValues ==
    [ch \in Channels |-> [q \in Quantities |->
        {Mid[ch][q], Mid[ch][q] + OffGrid, Mid[ch][q] - OffGrid, Mid[ch][q] + BelowGrid,
         Factory[ch][q].max - BelowGrid, Factory[ch][q].max + BelowGrid,
         Factory[ch][q].min - BelowGrid}]]

NextRound ==
    \/ Set(RoundValues, IdealEnvs)
    \/ Get(IdealEnvs)

SpecRound == Init /\ [][NextRound]_vars

-----------------------------------------------------------------------------
(* Ranges wider than the factory range *)

\* USER_* or MIN_*/MAX_* values a unit outside the factory constants
WideLimits ==
    [ch \in Channels |-> [q \in Quantities |->
        [min |-> Factory[ch][q].min - Unit, max |-> Factory[ch][q].max + Unit]]]

\* the importing code and the configuration left the USER_* and the instance
\* ranges at the factory constants or set them wider
InitWide ==
    /\ InitDriver
    /\ userLim \in {FactoryLimits, WideLimits}
    /\ \E l \in {FactoryLimits, WideLimits} : instLim = [i \in Instances |-> l]

\* a value round() changes and values half a unit outside the factory range
WideValues ==
    [ch \in Channels |-> [q \in Quantities |->
        {Mid[ch][q] + OffGrid, Factory[ch][q].max + Unit \div 2,
         Factory[ch][q].min - Unit \div 2}]]

\* the command is answered, the port cannot be written, the supply records
\* an error
WideEnvs ==
    {<<IdealEnv, IdealEnv>>, <<Env("write", FALSE, 0)>>, <<Env("none", FALSE, 1), IdealEnv>>}

WidenUserLimit ==
    \E output \in Channels, quantity \in Quantities, side \in {"min", "max"} :
        Focus(output)
            /\ set_user_limit(output, quantity, side, WideLimits[output][quantity][side])

WidenInstanceLimit ==
    \E self \in Instances, output \in Channels, quantity \in Quantities :
    \E side \in {"min", "max"} :
        Focus(output)
            /\ set_instance_limit(self, output, quantity, side,
                                  WideLimits[output][quantity][side])

NextWide ==
    \/ Set(WideValues, WideEnvs)
    \/ Get(WideEnvs)
    \/ WidenUserLimit
    \/ WidenInstanceLimit

SpecWide == InitWide /\ [][NextWide]_vars

-----------------------------------------------------------------------------
(* Lines that arrive without their terminator *)

\* the line of the command or of the error query is read whole, or without
\* its CRLF, or with a part of it; or the command raises an error, or nothing
\* answers at all
Endings == {"none", "cut", "cut_cr", "lf"}
TerminatorEnvs ==
    {<<Env(t, FALSE, 0), Env(u, FALSE, 0)>> : t \in Endings, u \in Endings}
        \cup {<<Env("none", FALSE, 1), Env(u, FALSE, 0)>> : u \in Endings}
        \cup {<<Lost, Lost>>}

NextTerminator ==
    \/ Set(ScriptValues, TerminatorEnvs)
    \/ Get(TerminatorEnvs)
    \/ Error(TerminatorEnvs)

SpecTerminator == Init /\ [][NextTerminator]_vars

-----------------------------------------------------------------------------
(* Two instances in one process *)

\* two instances of the class in the process that imported the module once
Drivers == {"ps", "ps2"}

\* both constructed: the USER_* globals and the MIN_*/MAX_* attributes of the
\* class are the deep copies of the factory constants
InitTwoDrivers ==
    /\ setpoint = [i \in Drivers |-> Zero]
    /\ inst = [apply |-> Zero, errq |-> <<>>]
    /\ acked = [i \in Drivers |-> Zero]
    /\ last = Obs("init", "-", "-", "-", 0, NoExc, 0, NoDispatch)
    /\ nops = 0
    /\ hist = NoHistory
    /\ userLim = FactoryLimits
    /\ instLim = [i \in Drivers |-> FactoryLimits]
    /\ serial = [i \in Drivers |-> DefaultSession]
    /\ thr = NoCallers
    /\ tty = IdleLine

SetByDriver ==
    \E self \in Drivers, output \in Channels, quantity \in Quantities :
    \E value \in InputValues[output][quantity] :
        Focus(output) /\ set_value(self, output, quantity, value, <<IdealEnv, IdealEnv>>)

SetInstanceLimitOfDriver ==
    \E self \in Drivers, output \in Channels, quantity \in Quantities :
    \E side \in {"min", "max"}, r \in Ranges(output, quantity) :
        Focus(output) /\ set_instance_limit(self, output, quantity, side, r[side])

NextTwoDrivers ==
    \/ SetByDriver
    \/ SetUserLimit
    \/ SetInstanceLimitOfDriver

SpecTwoDrivers == InitTwoDrivers /\ [][NextTwoDrivers]_vars

-----------------------------------------------------------------------------
(* The command generator on its own *)

\* the output tokens a caller may write: the three outputs, lower-case
\* spellings, and tokens that name no output
OutputTokens == {"P6V", "P25V", "N25V", "p6v", "n25v", "P6", "P6V ", "CH1", ""}

\* the voltage and current arguments: None, the sentinels in both cases,
\* strings that spell a number or none, floats on and off the six decimals
ParamValues ==
    {None}
        \cup {PyString(x) : x \in {"", "DEF", "def", "MIN", "max", "3.5", "abc"}}
        \cup {PyFloat(x) : x \in {0, (35 * Unit) \div 10, 1 * Unit, -(Unit \div 2),
                                  (125 * Unit) \div 10 + 6, -((125 * Unit) \div 10) - 4}}

ApplyArgs(output, voltage, current, request) ==
    [output |-> output, voltage |-> voltage, current |-> current, request |-> request]

\* the arguments of one call are chosen; nothing was called yet
InitGenerate ==
    /\ setpoint = [i \in Instances |-> Zero]
    /\ inst = [apply |-> Zero, errq |-> <<>>]
    /\ acked = [i \in Instances |-> Zero]
    /\ nops = 0
    /\ hist = NoHistory
    /\ InitSession
    /\ userLim = FactoryLimits
    /\ instLim = [i \in Instances |-> FactoryLimits]
    /\ \E output \in OutputTokens, voltage \in ParamValues, current \in ParamValues,
          request \in BOOLEAN :
           last = Obs("args", "-", "-", "-", ApplyArgs(output, voltage, current, request),
                      NoExc, EmptyStr, NoDispatch)

\* command = self._generate_apply_command(output, voltage, current, request)
Generated(a, g) ==
    /\ last' = Obs("generate", "-", "-", "-", a, g.exc, g.text, NoDispatch)
    /\ UNCHANGED <<setpoint, userLim, instLim, inst, acked>>

Generate ==
    /\ last.op = "args"
    /\ Step
    /\ Generated(last.arg,
                 _generate_apply_command(last.arg.output, last.arg.voltage,
                                         last.arg.current, last.arg.request))

\* command = self._generate_apply_command(...) followed by
\* self.send_scpi_command(command=command), as the setters and getters do
Sent(a, g, d) ==
    /\ inst' = IF g.exc.type # "none" THEN inst ELSE d.dev
    /\ last' = IF g.exc.type # "none"
               THEN Obs("send", "-", "-", "-", a, g.exc, g.text, NoDispatch)
               ELSE Obs("send", "-", "-", "-", a, d.exc, g.text, d)
    /\ UNCHANGED <<setpoint, userLim, instLim, acked>>

GenerateThenSend(a, g) ==
    Sent(a, g, send_scpi_command(Age(inst), g.text, FALSE, <<IdealEnv, IdealEnv>>))

\* the values of an APPLy command that is sent are numbers
GenerateAndSend ==
    /\ last.op = "args"
    /\ last.arg.request \/ (last.arg.voltage.k = "float" /\ last.arg.current.k = "float")
    /\ Step
    /\ GenerateThenSend(last.arg,
                        _generate_apply_command(last.arg.output, last.arg.voltage,
                                                last.arg.current, last.arg.request))

NextGenerate ==
    \/ Generate
    \/ GenerateAndSend

SpecGenerate == InitGenerate /\ [][NextGenerate]_vars

-----------------------------------------------------------------------------
(* Properties *)

Tiers == {"factory", "user", "instance"}

\* the range of a tier for an output and quantity, as the state holds it
Bound(tier, self, output, quantity) ==
    CASE tier = "factory" -> Factory[output][quantity]
      [] tier = "user" -> userLim[output][quantity]
      [] tier = "instance" -> instLim[self][output][quantity]

Outside(r, v) == v < r.min \/ v > r.max

LastOutside(tier) == Outside(Bound(tier, last.self, last.output, last.quantity), last.arg)

Rejected == last.op = "set" /\ last.exc.type = "ValueError" /\ last.exc.tier \in Tiers

\* C1: a write of a value outside the factory, the user or the instance range
\* is rejected with an error that names a tier whose range excludes the
\* value, and the write puts no command on the line.
C1_OutsideIsRejected ==
    (last.op = "set" /\ \E t \in Tiers : LastOutside(t))
        => /\ Rejected
           /\ LastOutside(last.exc.tier)
           /\ last.wire = <<>>

\* a value inside the factory and user ranges that the instance range rejects
C1_Witness ==
    /\ Rejected /\ last.wire = <<>>
    /\ ~LastOutside("factory") /\ ~LastOutside("user") /\ LastOutside("instance")
    /\ last.exc.tier = "instance"

\* C2: both values of every APPLy command a write puts on the line lie within
\* the factory, user and instance ranges in force for the output.
C2_SentWithinBounds ==
    (last.op = "set" /\ last.wire # <<>>)
        => \A t \in Tiers :
              /\ ~Outside(Bound(t, last.self, last.output, "voltage"),
                          float(last.wire[1].cmd.fields[2]))
              /\ ~Outside(Bound(t, last.self, last.output, "current"),
                          float(last.wire[1].cmd.fields[3]))

\* C3: a write rejected by a limit check leaves all stored setpoints as they were.
C3_RejectedKeepsSetpoints ==
    [][(nops' = nops + 1 /\ last'.op = "set" /\ last'.exc.type = "ValueError")
          => setpoint' = setpoint]_vars

\* write(3.5) on the P6V voltage succeeded, write(6.5) was rejected: 3.5 stays
C3_Witness ==
    /\ Rejected /\ last.exc.tier = "factory"
    /\ last.output = "P6V" /\ last.quantity = "voltage"
    /\ last.arg = (65 * Unit) \div 10
    /\ setpoint[last.self]["P6V"].voltage = (35 * Unit) \div 10

\* C4: a write is accepted iff the value lies within each of the three ranges,
\* bounds included, whether or not the ranges are nested.
C4_AcceptedIffInAllTiers ==
    last.op = "set" => (~Rejected <=> \A t \in Tiers : ~LastOutside(t))

\* accepted on the bound shared by a user and an instance range of which
\* neither lies within the other or within the factory range
C4_Witness ==
    /\ last.op = "set" /\ last.exc.type = "none" /\ last.wire # <<>>
    /\ last.arg = Bound("user", last.self, last.output, last.quantity).max
    /\ last.arg = Bound("instance", last.self, last.output, last.quantity).min
    /\ Bound("user", last.self, last.output, last.quantity).min
          < Bound("factory", last.self, last.output, last.quantity).min
    /\ Bound("instance", last.self, last.output, last.quantity).max
          > Bound("factory", last.self, last.output, last.quantity).max

FirstViolated ==
    IF LastOutside("factory") THEN "factory"
    ELSE IF LastOutside("user") THEN "user" ELSE "instance"

\* C5: a rejected write reports the first violated tier in the order factory,
\* user, instance, with that tier's min and max, the output and the quantity.
C5_ReportsFirstViolatedTier ==
    Rejected
        => /\ last.exc.tier = FirstViolated
           /\ last.exc.min = Bound(FirstViolated, last.self, last.output, last.quantity).min
           /\ last.exc.max = Bound(FirstViolated, last.self, last.output, last.quantity).max
           /\ last.exc.output = last.output
           /\ last.exc.quantity = last.quantity
           /\ last.exc.value = last.arg

\* the value violates the user and the instance range: the user range is reported
C5_Witness ==
    /\ Rejected /\ ~LastOutside("factory") /\ LastOutside("user") /\ LastOutside("instance")
    /\ last.exc.tier = "user"
    /\ last.exc.max = userLim[last.output][last.quantity].max

\* the line an operation's k-th round trip read, without its CRLF
Read_(k) == StripCRLF(last.wire[k].raw)

\* the instrument holds the pair the APPLy command of the last write named
\* and has no error pending
SetEchoed ==
    /\ last.op = "set" /\ last.exc.type = "none" /\ Len(last.wire) = 2
    /\ inst.errq = <<>>
    /\ inst.apply[last.output].voltage = last.wire[1].cmd.fields[2].val
    /\ inst.apply[last.output].current = last.wire[1].cmd.fields[3].val

\* the next operation reads the quantity just written; the instrument answers
\* the query and the error query
GetAnswered ==
    /\ nops' = nops + 1
    /\ last'.op = "get" /\ last'.self = last.self
    /\ last'.output = last.output /\ last'.quantity = last.quantity
    /\ Len(last'.wire) = 2
    /\ last'.wire[1].raw # EmptyStr
    /\ StripCRLF(last'.wire[2].raw) = no_error_string

Dispatched == last.op \in {"set", "get"} /\ Len(last.wire) = 2
DispatchedCommand == [last.wire[1].cmd EXCEPT !.tail = ""]

\* C7 as stated: whenever the error query's response is not the no-error
\* sentinel, an instrument error with the command's text is raised and the
\* dispatcher returns the error string.
C7_ErrorReturnedUnlessSentinel ==
    (Dispatched /\ Read_(2) # no_error_string)
        => /\ last.warns = <<Warning("InstrumentError", DispatchedCommand)>>
           /\ last.result = Read_(2)

\* C7, amended: whenever the error query's response is neither empty nor the
\* no-error sentinel, an instrument error with the command's text is raised
\* and the dispatcher returns the error string, not the command's response.
C7_ErrorReturnedUnlessSentinelOrEmpty ==
    (Dispatched /\ Read_(2) # no_error_string /\ Read_(2) # EmptyStr)
        => /\ last.warns = <<Warning("InstrumentError", DispatchedCommand)>>
           /\ last.result = Read_(2)

\* a query was answered, the error query returned an error: the error is the result
C7_Witness ==
    /\ Dispatched /\ last.op = "get"
    /\ Read_(1) # EmptyStr /\ Read_(2) # EmptyStr /\ Read_(2) # no_error_string
    /\ last.result = Read_(2) /\ last.result # Read_(1)
    /\ last.warns = <<Warning("InstrumentError", DispatchedCommand)>>

\* C8: an error string returned as an instrument error was raised by the
\* command being dispatched, never by an earlier command or the front panel.
C8_ErrorIsOfThisCommand ==
    (last.warns # <<>> /\ last.warns[1].kind = "InstrumentError") => last.by = "current"

\* C9: the stored setpoints of every output are the pair last written to the
\* transport for it.
C9_StoredIsTransmitted ==
    \A self \in DOMAIN setpoint : \A ch \in Channels : setpoint[self][ch] = acked[self][ch]

\* the value the result of a read reports for the quantity read
ReportsValue ==
    /\ Len(last.result.fields) = 2
    /\ last.result.fields[IF last.quantity = "voltage" THEN 1 ELSE 2].kind \in {"fix6", "int"}
Reported ==
    LET f == last.result.fields[IF last.quantity = "voltage" THEN 1 ELSE 2]
    IN  IF f.kind = "fix6" THEN 10 * f.val ELSE Unit * f.val
Stored == setpoint[last.self][last.output][last.quantity]
WithinTolerance(a, b) == Abs(a - b) <= Max2(Abs(a), Abs(b)) \div 1000000000

\* C10: a read returns a value only if the reported value is within tolerance
\* of the stored setpoint, and then returns the reported value; a reported
\* value out of tolerance fails the read with an error naming the stored and
\* the reported value.
C10_ReadChecksStored ==
    /\ (last.op = "get" /\ last.exc.type = "none")
          => ReportsValue /\ WithinTolerance(Reported, Stored) /\ last.ret = Reported
    /\ (last.op = "get" /\ last.exc.type # "SerialException" /\ ReportsValue
           /\ ~WithinTolerance(Reported, Stored))
          => /\ last.exc.type = "AssertionError"
             /\ last.exc.cls = Stored /\ last.exc.ps = Reported

\* a read before any write, after the front panel changed the output
C10_Witness ==
    /\ last.op = "get" /\ last.exc.type = "AssertionError"
    /\ Stored = 0 /\ acked[last.self][last.output][last.quantity] = 0
    /\ last.exc.cls = 0 /\ last.exc.ps = Mid[last.output][last.quantity]

\* C11: a read never changes a stored setpoint, whether it returns a value,
\* fails on a malformed response or fails on a divergence; the stored
\* setpoints change only in a write whose value passed the three limit checks.
C11_ReadKeepsSetpoints ==
    [][/\ (nops' = nops + 1 /\ last'.op = "get") => setpoint' = setpoint
       /\ setpoint' # setpoint
             => /\ last'.op = "set"
                /\ \A t \in Tiers :
                      ~Outside(Bound(t, last'.self, last'.output, last'.quantity),
                               last'.arg)]_vars

\* a read fails on a divergence: the instrument reports a value that differs
\* from the stored setpoint of an earlier write, which is still stored
C11_Witness ==
    /\ last.op = "get" /\ last.exc.type = "AssertionError"
    /\ Stored # 0 /\ last.exc.cls = Stored /\ last.exc.ps # Stored

\* the states the operations of the behaviour left, the current one last
Past == hist.past \o <<Snapshot>>

AcceptedWrite(o) == o.op = "set" /\ o.exc.type = "none"
SameTarget(a, b) == a.self = b.self /\ a.output = b.output /\ a.quantity = b.quantity
\* the APPLy commands for its output that an operation handed to the transport
ApplyCalls(o) == SelectSeq(o.calls, LAMBDA c : c.cmd.fields[1] = Tok(ApplyHead[o.output]))
ReadOf(o, w) == o.op = "get" /\ SameTarget(o, w)

\* operations i < j are the same accepted write, with nothing but reads between
RepeatedWrite(i, j) ==
    /\ i < j
    /\ AcceptedWrite(Past[i].obs) /\ AcceptedWrite(Past[j].obs)
    /\ SameTarget(Past[i].obs, Past[j].obs) /\ Past[i].obs.arg = Past[j].obs.arg
    /\ \A k \in (i + 1)..(j - 1) : Past[k].obs.op = "get"

\* C12: of two identical in-bounds writes in a row each dispatches one APPLy
\* command, the stored setpoints after the second are those after the first,
\* and a read after the second returns what a read after the first returned.
C12_WriteIsIdempotent ==
    \A i, j \in DOMAIN Past :
        RepeatedWrite(i, j)
            => /\ Len(ApplyCalls(Past[i].obs)) = 1
               /\ Len(ApplyCalls(Past[j].obs)) = 1
               /\ Past[j].sp = Past[i].sp
               /\ (/\ i + 1 < j /\ j + 1 \in DOMAIN Past
                   /\ ReadOf(Past[i + 1].obs, Past[i].obs)
                   /\ ReadOf(Past[j + 1].obs, Past[j].obs))
                     => /\ Past[j + 1].obs.exc = Past[i + 1].obs.exc
                        /\ Past[j + 1].obs.ret = Past[i + 1].obs.ret

\* write 3.5, read 3.5, write 3.5, read 3.5 on the P6V voltage
C12_Witness ==
    /\ Len(Past) = 5
    /\ RepeatedWrite(2, 4)
    /\ Past[2].obs.output = "P6V" /\ Past[2].obs.quantity = "voltage"
    /\ Past[2].obs.arg = Mid["P6V"]["voltage"]
    /\ ReadOf(Past[3].obs, Past[2].obs) /\ ReadOf(Past[5].obs, Past[4].obs)
    /\ Past[3].obs.exc.type = "none" /\ Past[3].obs.ret = Mid["P6V"]["voltage"]
    /\ Past[5].obs.ret = Mid["P6V"]["voltage"]
    /\ Len(Past[2].obs.calls) = 2 /\ Len(Past[4].obs.calls) = 2

\* C13: deleting a setpoint fails, for every output and quantity, leaves the
\* stored setpoints as they were and hands no command to the transport.
C13_DeleteFails ==
    [][(nops' = nops + 1 /\ last'.op = "del")
          => /\ last'.exc.type = "RuntimeError"
             /\ last'.exc.output = last'.output /\ last'.exc.quantity = last'.quantity
             /\ setpoint' = setpoint
             /\ inst' = inst
             /\ last'.calls = <<>>]_vars

\* the deletion of a setpoint that a write has stored before
C13_Witness ==
    /\ last.op = "del" /\ last.exc.type = "RuntimeError"
    /\ Stored # 0 /\ last.calls = <<>>

\* an operation that called the dispatcher: a write that passed the limit
\* checks, a read, or error()
DispatchOp == last.op \in {"set", "get", "error"} /\ last.calls # <<>>
\* the head of the command the operation asked the dispatcher to send
RequestedHead ==
    CASE last.op = "set" -> Tok(ApplyHead[last.output])
      [] last.op = "get" -> Tok(QueryHead[last.output])
      [] last.op = "error" -> Tok("SYSTem:ERRor?")
IsErrorQuery(c) == c.cmd = [fields |-> <<Tok("SYSTem:ERRor?")>>, tail |-> "\n"]

\* C14: a dispatch makes at most two calls of the transport, for the requested
\* command and for at most one error query; the answer of the error query is
\* taken as it is and never followed by a further error query.
C14_AtMostOneErrorQuery ==
    DispatchOp
        => /\ Len(last.calls) <= 2
           /\ last.calls[1].cmd.fields[1] = RequestedHead
           /\ Len(last.calls) = 2 => IsErrorQuery(last.calls[2])
           /\ (Len(last.wire) = 2 /\ Read_(2) \notin {EmptyStr, no_error_string})
                 => last.result = Read_(2)

\* the error query is answered with an error and is the last call of the dispatch
C14_Witness ==
    /\ DispatchOp /\ Len(last.calls) = 2 /\ Len(last.wire) = 2
    /\ Read_(2) \notin {EmptyStr, no_error_string}
    /\ last.result = Read_(2) /\ inst.errq # <<>>

\* C15: when the answer of the error query is empty the dispatcher warns that
\* nothing responded, raises nothing and returns the response of the command.
C15_EmptyErrorResponse ==
    (DispatchOp /\ Len(last.wire) = 2 /\ Read_(2) = EmptyStr)
        => /\ last.warns = <<Warning("NoResponse", EmptyStr)>>
           /\ last.result = Read_(1)
           /\ last.exc.type # "SerialException"

\* a query is answered, its error query is not: the answer of the query is returned
C15_Witness ==
    /\ last.op = "get" /\ Len(last.wire) = 2
    /\ Read_(1) # EmptyStr /\ Read_(2) = EmptyStr
    /\ last.result = Read_(1) /\ last.exc.type = "none"
    /\ last.warns = <<Warning("NoResponse", EmptyStr)>>

\* C16: when the response of the command is the no-error string the dispatcher
\* returns it and calls the transport no second time; after every other
\* response of a command exactly one error query follows.
C16_ErrorQueryUnlessSentinel ==
    (DispatchOp /\ last.wire # <<>>)
        => IF Read_(1) = no_error_string
           THEN /\ Len(last.calls) = 1
                /\ last.result = Read_(1) /\ last.warns = <<>> /\ last.exc.type = "none"
           ELSE /\ Len(last.calls) = 2
                /\ IsErrorQuery(last.calls[2])

\* error() on an instrument with an empty error queue
C16_Witness ==
    /\ last.op = "error" /\ Len(last.wire) = 1 /\ Len(last.calls) = 1
    /\ Read_(1) = no_error_string /\ last.result = no_error_string

\* C17: when the answer of the error query is the no-error string the
\* dispatcher returns the response of the command as it is, empty or not, and
\* warns of no instrument error.
C17_NoErrorKeepsResponce ==
    (DispatchOp /\ Len(last.wire) = 2 /\ Read_(2) = no_error_string)
        => /\ last.result = Read_(1)
           /\ last.warns = <<>>
           /\ last.exc.type # "SerialException"

\* an APPLy command that the instrument accepts without a response
C17_Witness ==
    /\ last.op = "set" /\ Len(last.wire) = 2
    /\ Read_(1) = EmptyStr /\ Read_(2) = no_error_string
    /\ last.result = EmptyStr /\ last.warns = <<>> /\ last.exc.type = "none"

\* C18: a write that passed the limit checks hands one APPLy command for its
\* output to the transport; the command carries the written quantity, rounded,
\* and the value stored before the write for the other quantity of the output.
C18_WriteCarriesBoth ==
    [][(nops' = nops + 1 /\ last'.op = "set" /\ last'.exc.type # "ValueError")
          => LET stored == setpoint[last'.self][last'.output]
                 written == round(last'.arg, _SUPPLY_RESOLVED_DIGITS)
                 v == IF last'.quantity = "voltage" THEN written ELSE stored.voltage
                 c == IF last'.quantity = "current" THEN written ELSE stored.current
             IN  /\ Len(ApplyCalls(last')) = 1
                 /\ last'.calls[1].cmd =
                       [fields |-> <<Tok(ApplyHead[last'.output]),
                                     Fix6(v \div Pow10(UnitDigits - 6)),
                                     Fix6(c \div Pow10(UnitDigits - 6))>>,
                        tail |-> "\n"]
                 /\ \A i \in 2..Len(last'.calls) : IsErrorQuery(last'.calls[i])]_vars

\* a voltage write that sends the current stored by an earlier write again
C18_Witness ==
    /\ last.op = "set" /\ last.exc.type = "none" /\ last.quantity = "voltage"
    /\ Len(last.calls) = 2
    /\ last.calls[1].cmd.fields[2].val # 0
    /\ last.calls[1].cmd.fields[3].val # 0
    /\ float(last.calls[1].cmd.fields[3]) = setpoint[last.self][last.output].current
    /\ \A ch \in Channels \ {last.output} : setpoint[last.self][ch].current = 0

\* what a dispatch returns, from the lines read in its own round trips alone
ResultOf(wire) ==
    LET R == StripCRLF(wire[1].raw)
        E == StripCRLF(wire[2].raw)
    IN  IF Len(wire) = 1 THEN R
        ELSE IF E \in {EmptyStr, no_error_string} THEN R ELSE E

\* C19: whatever the earlier operations ended with, a write of a value inside
\* all three ranges is accepted, stored and dispatched, and the result of a
\* dispatch is determined by the lines the instrument sent during that call.
C19_NoFatalState ==
    /\ (last.op = "set" /\ \A t \in Tiers : ~LastOutside(t))
          => /\ last.exc.type # "ValueError"
             /\ Stored = round(last.arg, _SUPPLY_RESOLVED_DIGITS)
             /\ Len(ApplyCalls(last)) = 1
    /\ (DispatchOp /\ last.exc.type # "SerialException")
          => last.result = ResultOf(last.wire)

\* a write accepted, stored and dispatched after a command that left an error
\* in the queue of the instrument
C19_Witness ==
    /\ last.op = "set" /\ last.exc.type = "none" /\ last.by = "earlier"
    /\ Stored = round(last.arg, _SUPPLY_RESOLVED_DIGITS) /\ Stored # 0
    /\ Len(last.calls) = 2 /\ last.result = ResultOf(last.wire)

\* the port events of the calls of the last operation, one call after another
RECURSIVE Flatten(_)
Flatten(calls) == IF calls = <<>> THEN <<>> ELSE Head(calls).port \o Flatten(Tail(calls))
Count(events, ev) == Len(SelectSeq(events, LAMBDA x : x = ev))
\* ports open after the first k events
OpenAfter(events, k) ==
    Count(SubSeq(events, 1, k), "open") - Count(SubSeq(events, 1, k), "close")

\* C20: every call of the transport closes the port it opened before it
\* returns or raises; at most one port is open at any moment and none is open
\* between the calls of a dispatch or after it.
C20_PortClosedAfterCall ==
    /\ \A i \in DOMAIN last.calls :
          /\ OpenAfter(last.calls[i].port, Len(last.calls[i].port)) = 0
          /\ last.calls[i].port # <<>> => Head(last.calls[i].port) = "open"
    /\ \A k \in 0..Len(Flatten(last.calls)) : OpenAfter(Flatten(last.calls), k) \in {0, 1}

\* the read of the error query's answer fails after the port was opened twice
C20_Witness ==
    /\ Len(last.calls) = 2 /\ last.exc.type = "SerialException" /\ last.exc.tier = "read"
    /\ last.calls[1].port = <<"open", "write", "readline", "close">>
    /\ last.calls[2].port = <<"open", "write", "close">>

\* the writes and reads on the serial line, in their order
Log == tty.log

\* C21: with one caller every line written is followed by the read of its
\* response, or of nothing when the timeout elapsed, before any other line is
\* written; the error query that checks a command is the next line written
\* after that command, and it is the error query.
C21_OneCommandAtATime ==
    \A i \in DOMAIN Log :
        Log[i].ev = "write"
            => /\ i < Len(Log)
                  => /\ Log[i + 1].ev = "readline"
                     /\ Log[i + 1].n = Log[i].n /\ Log[i + 1].stage = Log[i].stage
               /\ Log[i].stage = 2
                  => /\ Log[i].cmd = WithNewline(error_command)
                     /\ i >= 3
                     /\ Log[i - 2].ev = "write" /\ Log[i - 2].stage = 1
                     /\ Log[i - 2].n = Log[i].n /\ Log[i - 2].who = Log[i].who

\* two dispatches, each a command and its error query: four lines written, each
\* read before the next, the second command answered by the supply
C21_Witness ==
    /\ Len(Log) = 8
    /\ \A i \in {1, 3, 5, 7} : Log[i].ev = "write" /\ Log[i + 1].ev = "readline"
    /\ Log[3].stage = 2 /\ Log[7].stage = 2 /\ Log[5].n = 2
    /\ Log[5].cmd = WithNewline(QueryText("P6V"))
    /\ thr["a"].pc = "idle" /\ thr["a"].done = 2
    /\ thr["a"].out.wire[1].raw # EmptyStr

\* the dispatch of a caller returned
Finished(c) == thr[c].pc = "idle" /\ thr[c].done >= 1
\* the dispatch of caller q returned the error that the command of p recorded
GotErrorOf(q, p) ==
    /\ Finished(q)
    /\ thr[q].out.warns # <<>> /\ thr[q].out.warns[1].kind = "InstrumentError"
    /\ thr[q].out.by = p

\* C22: when the error query of one caller returns the error recorded for the
\* command of another caller, the error is reported with the command of the
\* caller that asked, is the result of that caller's dispatch, and is not
\* returned to the caller whose command recorded it.
C22_ErrorGoesToTheCallerThatAsks ==
    \A p, q \in DOMAIN thr :
        (p # q /\ GotErrorOf(q, p))
            => /\ thr[q].out.warns = <<Warning("InstrumentError", thr[q].command)>>
               /\ thr[q].out.result = StripCRLF(thr[q].out.wire[2].raw)
               /\ thr[q].out.result \notin {EmptyStr, no_error_string}
               /\ Finished(p) => ~(thr[p].out.by = p /\ thr[p].out.result = thr[q].out.result)

\* the command of a records one error and b's command none; the error query of
\* b returns the error with b's command, a's own error query finds no error
C22_Witness ==
    /\ GotErrorOf("b", "a")
    /\ thr["a"].fate.nerr = 1 /\ thr["b"].fate.nerr = 0 /\ ~thr["b"].fate.lost
    /\ thr["b"].command = QueryText("P6V")
    /\ thr["b"].out.warns = <<Warning("InstrumentError", QueryText("P6V"))>>
    /\ Finished("a")
    /\ thr["a"].out.warns = <<>> /\ thr["a"].out.exc.type = "none"
    /\ StripCRLF(thr["a"].out.wire[2].raw) = no_error_string
    /\ inst.errq = <<>>

\* a construction that came to its dispatches, none of which failed at the port
ProbedAndSent ==
    /\ last.op = "__init__" /\ last.calls # <<>>
    /\ \A i \in DOMAIN last.calls : last.calls[i].port = PortEvents(IdealEnv)
\* the command was handed to the transport during the last operation
Handed(command) == \E i \in DOMAIN last.calls : last.calls[i].cmd = WithNewline(command)
\* what version() returned: every dispatch of a construction makes two round trips
VersionResult == ResultOf(SubSeq(last.wire, 1, 2))
IdentityAsked == Len(last.calls) >= 3 /\ last.calls[3].cmd = WithNewline(idn_command)
IdentityResult == ResultOf(SubSeq(last.wire, 3, 4))
SomeoneAnswered == VersionResult # EmptyStr \/ (IdentityAsked /\ IdentityResult # EmptyStr)
WarnedNoInstrument == \E i \in DOMAIN last.warns : last.warns[i].kind = "NoInstrument"

\* C23: a construction sends SYSTem:REMote iff version() or the identity query
\* returned a non-empty result; when both are empty it warns that nothing
\* responds and sends no SYSTem:REMote; in both cases it raises nothing and
\* the caller holds an instance.
C23_RemoteIffSomeoneAnswered ==
    ProbedAndSent
        => /\ Handed(remote_command) <=> SomeoneAnswered
           /\ WarnedNoInstrument <=> ~SomeoneAnswered
           /\ last.exc.type = "none"
           /\ serial[last.self].built

\* version() returns nothing, the identity query is answered: remote mode
C23_Witness ==
    /\ ProbedAndSent
    /\ VersionResult = EmptyStr /\ IdentityAsked /\ IdentityResult = IdentityText
    /\ Handed(remote_command) /\ ~WarnedNoInstrument
    /\ last.exc.type = "none"

\* C24 as stated: every construction dispatches SYSTem:VERSion? and *IDN?
\* before it decides, whatever version() returned.
C24_BothQueriesDispatched ==
    ProbedAndSent
        => /\ last.calls[1].cmd = WithNewline(version_command)
           /\ Handed(idn_command)

\* C24, amended: every construction dispatches SYSTem:VERSion? first; it
\* dispatches *IDN? next iff version() returned an empty result, and decides
\* without an identity query when version() returned anything.
C24_IdentityIffVersionEmpty ==
    ProbedAndSent
        => /\ last.calls[1].cmd = WithNewline(version_command)
           /\ Handed(idn_command) <=> VersionResult = EmptyStr
           /\ Handed(idn_command) => IdentityAsked

\* the supply answers the version query: remote mode without an identity query
C24_Witness ==
    /\ ProbedAndSent
    /\ VersionResult = VersionText
    /\ ~Handed(idn_command) /\ Handed(remote_command)
    /\ last.exc.type = "none"

\* a construction whose arguments passed the checks of parity and timeout
Accepted_(obs) == obs.op = "__init__" /\ obs.exc.type \notin {"ValueError", "TypeError"}
WarnedTimeout(obs) == \E i \in DOMAIN obs.warns : obs.warns[i].kind = "Timeout"
Requested(obs) == obs.arg.timeout.v

\* what every step leaves of the session: a timeout of at least 1 in every
\* instance, the default and a warning for a requested timeout below 1, and
\* the session as it was after every operation that is no construction
SessionKept ==
    /\ \A i \in DOMAIN serial' : serial'[i].built => serial'[i].timeout >= 1
    /\ (nops' = nops + 1 /\ Accepted_(last') /\ Requested(last') < Unit)
          => /\ serial'[last'.self].timeout = DEFAULT_TIMEOUT
             /\ WarnedTimeout(last')
    /\ (nops' = nops + 1 /\ last'.op # "__init__") => serial' = serial

\* C25 as stated: the timeout is at least 1 after construction, a requested
\* timeout below 1 is replaced by the default with a warning and is no
\* failure, a requested timeout of 1 or more is kept as given, and no later
\* operation changes the session.
C25_TimeoutKeptAsGiven ==
    [][/\ SessionKept
       /\ (nops' = nops + 1 /\ Accepted_(last') /\ Requested(last') >= Unit)
             => /\ serial'[last'.self].timeout * Unit = Requested(last')
                /\ ~WarnedTimeout(last')]_vars

\* C25, amended: as stated, but of a requested timeout of 1 or more the whole
\* seconds are kept (the fraction is cut off), with no warning.
C25_TimeoutKeptInWholeSeconds ==
    [][/\ SessionKept
       /\ (nops' = nops + 1 /\ Accepted_(last') /\ Requested(last') >= Unit)
             => /\ serial'[last'.self].timeout * Unit <= Requested(last')
                /\ Requested(last') < (serial'[last'.self].timeout + 1) * Unit
                /\ ~WarnedTimeout(last')]_vars

\* a timeout of 1.5 was requested: the instance is constructed with a timeout
\* of 1 and no warning
C25_Witness ==
    /\ last.op = "__init__" /\ last.exc.type = "none"
    /\ Requested(last) = (3 * Unit) \div 2
    /\ serial[last.self].built /\ serial[last.self].timeout = 1
    /\ ~WarnedTimeout(last)

\* C26: a driver whose configured timeout is null can be constructed and
\* used: the construction with timeout None raises nothing because of the
\* timeout and gives the caller an instance.
C26_NullTimeoutConstructs ==
    (last.op = "__init__" /\ last.arg.timeout = None /\ ParityOf(last.arg.parity) # "")
        => last.exc.type \in {"none", "SerialException"}

\* the values the setter of an instance takes: inside the factory range, the
\* USER_* range and the instance's own range
Takes(self, output, quantity, value) ==
    /\ InTier(Factory[output][quantity], value)
    /\ InTier(userLim[output][quantity], value)
    /\ InTier(instLim[self][output][quantity], value)

\* what the setters of an instance take, of the values a script writes
Taken(self) ==
    {<<output, quantity, value>> \in
        UNION {{<<ch, q, v>> : v \in InputValues[ch][q]} :
               ch \in Channels, q \in Quantities} :
        Takes(self, output, quantity, value)}

\* C27: every instance validates against the one set of USER_* bounds as it
\* is at the call, so a changed USER_* bound changes what every instance takes
\* from then on; each instance starts with its bounds equal to the factory
\* bounds; changing a bound of one instance changes no bound of another
\* instance and nothing another instance takes; and whatever bounds were
\* set, a value outside the factory range is refused as outside the factory
\* range
C27_TiersAndTheirOwners ==
    /\ \A i \in DOMAIN instLim : instLim[i] = FactoryLimits
    /\ [][/\ last'.op = "set" =>
               /\ (last'.exc.type = "none") =
                       Takes(last'.self, last'.output, last'.quantity, last'.arg)
               /\ ~InTier(Factory[last'.output][last'.quantity], last'.arg)
                       => last'.exc.type = "ValueError" /\ last'.exc.tier = "factory"
               /\ userLim' = userLim /\ instLim' = instLim
          /\ last'.op = "user_limit" =>
               /\ instLim' = instLim
               /\ \A ch \in Channels, q \in Quantities :
                      (ch # last'.output \/ q # last'.quantity)
                          => userLim'[ch][q] = userLim[ch][q]
          /\ last'.op = "instance_limit" =>
               /\ userLim' = userLim
               /\ \A i \in DOMAIN instLim \ {last'.self} :
                      /\ instLim'[i] = instLim[i]
                      /\ Taken(i)' = Taken(i)
         ]_vars

\* the bound of one instance was narrowed and the other instance takes a
\* value the first no longer takes
C27_Witness ==
    /\ last.op = "set" /\ last.exc.type = "none"
    /\ \E i \in DOMAIN instLim \ {last.self} :
           /\ ~Takes(i, last.output, last.quantity, last.arg)
           /\ instLim[i] # FactoryLimits
    /\ instLim[last.self] = FactoryLimits
    /\ userLim = FactoryLimits

\* the call of the command generator whose result is observed
Called == last.op \in {"generate", "send"}
Channel == Upper(last.arg.output)
IsNumber(x) == x.k = "float" \/ (x.k = "str" /\ x.s \in DOMAIN Numerals)
NumberOf(x) == IF x.k = "float" THEN x.v ELSE Numerals[x.s]
Usable(x) == IsSentinel(x) \/ IsNumber(x)

\* the field f writes x: a sentinel as its literal, a number as the six
\* decimal fixed point number nearest to it
Writes(f, x) ==
    IF IsNumber(x)
    THEN /\ f.kind = "fix6" /\ ~f.quoted
         /\ 2 * (f.val * Pow10(UnitDigits - 6) - NumberOf(x)) <= Pow10(UnitDigits - 6)
         /\ 2 * (NumberOf(x) - f.val * Pow10(UnitDigits - 6)) <= Pow10(UnitDigits - 6)
    ELSE f = Tok(CASE x.k = "None" -> ""
                   [] x.k = "str" /\ x.s \in {"DEF", "def"} -> "DEF"
                   [] x.k = "str" /\ x.s \in {"MIN", "min"} -> "MIN"
                   [] x.k = "str" /\ x.s \in {"MAX", "max"} -> "MAX"
                   [] OTHER -> "")

\* 'APPLy <CH>,<v>,<c>' for numbers and sentinels
ApplyForm ==
    (Called /\ Channel \in Channels /\ ~last.arg.request
        /\ Usable(last.arg.voltage) /\ Usable(last.arg.current))
        => /\ last.op = "generate" => last.exc.type = "none"
           /\ Len(last.ret.fields) = 3
           /\ last.ret.fields[1] = Tok(ApplyHead[Channel])
           /\ Writes(last.ret.fields[2], last.arg.voltage)
           /\ Writes(last.ret.fields[3], last.arg.current)
           /\ last.ret.tail = ""

\* C28 as stated: the apply form writes numbers with six decimals and
\* sentinels as their literals, and the query form yields 'APPLy? <CH>'
\* whatever the voltage and current arguments are
C28_QueryWhateverTheArguments ==
    /\ ApplyForm
    /\ (Called /\ Channel \in Channels /\ last.arg.request)
           => /\ last.op = "generate" => last.exc.type = "none"
              /\ last.ret = PyStr(<<Tok(QueryHead[Channel])>>)

\* C28: the apply form writes numbers with six decimals and sentinels as
\* their literals; the query form yields 'APPLy? <CH>' when the voltage and
\* the current argument are each a sentinel or a number, and fails with the
\* ValueError of float() and yields nothing when one of them is neither
C28_QueryOfUsableArguments ==
    /\ ApplyForm
    /\ (Called /\ Channel \in Channels /\ last.arg.request)
           => IF Usable(last.arg.voltage) /\ Usable(last.arg.current)
              THEN /\ last.op = "generate" => last.exc.type = "none"
                   /\ last.ret = PyStr(<<Tok(QueryHead[Channel])>>)
              ELSE /\ last.exc = FloatError
                   /\ last.ret = EmptyStr
                   /\ last.calls = <<>>

\* the query form was asked with a voltage that is no number and no sentinel
C28_Witness ==
    /\ last.op = "generate" /\ last.arg.output = "P6V" /\ last.arg.request
    /\ last.arg.voltage = PyString("abc") /\ last.arg.current = None
    /\ last.exc = FloatError

\* C29 as stated: every token that is not P6V, P25V or N25V fails with the
\* invalid output error, in apply and in query form, and nothing is produced
\* or dispatched
C29_EveryOtherTokenFails ==
    (Called /\ last.arg.output \notin Channels)
        => /\ last.exc.type = "ValueError" /\ last.exc.tier = "output"
           /\ last.ret = EmptyStr
           /\ last.calls = <<>>

\* C29: every token that in upper case is not P6V, P25V or N25V fails with
\* the invalid output error, in apply and in query form, and nothing is
\* produced or dispatched; a lower-case spelling is the output it spells
C29_EveryOtherOutputFails ==
    /\ (Called /\ Channel \notin Channels)
           => /\ last.exc = OutputError(Channel)
              /\ last.ret = EmptyStr
              /\ last.calls = <<>>
              /\ inst = [apply |-> Zero, errq |-> <<>>]
    /\ (Called /\ Channel \in Channels) => last.exc.tier # "output"

\* a query for the output CH1 was to be sent: it failed and nothing was sent
C29_Witness ==
    /\ last.op = "send" /\ last.arg.output = "CH1" /\ last.arg.request
    /\ last.exc = OutputError("CH1")
    /\ last.calls = <<>>

\* the result of a read's query does not split into two fields that are
\* numbers once their quotes are stripped
Malformed(result) ==
    \/ Len(result.fields) # 2
    \/ \E i \in 1..2 : ~IsNumeric(StripQuotes(result.fields[i]))

\* C30: a read whose query was dispatched and whose result does not split
\* into exactly two fields, or has a field that is not numeric, fails with
\* the ValueError of the unpacking or of float(), whether it reads the voltage
\* or the current
C30_MalformedResultFails ==
    (last.op = "get" /\ last.exc.type # "SerialException" /\ Malformed(last.result))
        => /\ last.exc.type = "ValueError"
           /\ last.exc.tier \in {"unpack", "float"}

\* the configuration has the entry <MIN|MAX>_<output>_<quantity>
HasEntry(config, output, quantity, side) ==
    \E o \in config.limits : o.output = output /\ o.quantity = quantity /\ o.side = side
EntryOf(config, output, quantity, side) ==
    CHOOSE o \in config.limits : o.output = output /\ o.quantity = quantity /\ o.side = side

\* C31: load_configuration fails when one of port, baudrate, parity, data,
\* timeout is missing, before an instance exists and before anything is handed
\* to the port; when it returns an instance, every MIN_* and MAX_* entry the
\* configuration has is that instance's bound and every other bound of the
\* instance is the factory constant
C31_RequiredKeysAndLimits ==
    last.op = "load_configuration" =>
        /\ ~(RequiredKeys \subseteq last.arg.has)
               => /\ last.exc.type = "KeyError"
                  /\ ~serial[last.self].built
                  /\ last.calls = <<>>
                  /\ inst = [apply |-> Zero, errq |-> <<>>]
        /\ last.exc.type = "none"
               => /\ RequiredKeys \subseteq last.arg.has
                  /\ serial[last.self].built
                  /\ \A ch \in Channels, q \in Quantities, side \in {"min", "max"} :
                         instLim[last.self][ch][q][side] =
                             IF HasEntry(last.arg, ch, q, side)
                             THEN EntryOf(last.arg, ch, q, side).value
                             ELSE Factory[ch][q][side]

\* a configuration with an entry for one bound only was loaded: the instance
\* has that bound and the factory constant for the other side
C31_Witness ==
    /\ last.op = "load_configuration" /\ last.exc.type = "none"
    /\ \E ch \in Channels, q \in Quantities :
           /\ HasEntry(last.arg, ch, q, "max") /\ ~HasEntry(last.arg, ch, q, "min")
           /\ instLim[last.self][ch][q].max = Mid[ch][q]
           /\ instLim[last.self][ch][q].min = Factory[ch][q].min

\* the error codes of a queue, oldest first
Codes(q) == [i \in DOMAIN q |-> q[i].code]

\* error() returned and every round trip of it was answered
ErrorReturned ==
    /\ last'.op = "error" /\ last'.exc.type = "none"
    /\ \A i \in DOMAIN last'.wire : last'.wire[i].raw # EmptyStr

\* C32: error() returns the oldest entry of the queue and removes that entry
\* and no other; with an empty queue it returns '+0,"No error"' and the queue
\* stays empty
C32_ErrorPopsTheOldest ==
    [][ErrorReturned =>
           IF inst.errq = <<>>
           THEN last'.result = no_error_string /\ inst'.errq = <<>>
           ELSE /\ last'.result = ErrText(Head(inst.errq))
                /\ Codes(inst'.errq) = Codes(Tail(inst.errq))
       ]_vars

\* the dispatch of the last operation ended with an error string of the
\* instrument returned in place of the response
EndedWithInstrumentError ==
    /\ last.warns # <<>> /\ last.warns[Len(last.warns)].kind = "InstrumentError"
    /\ last.result = Read_(2)
\* nothing answered the command of the last operation, or nothing answered
\* its error query
EndedWithNoResponse ==
    /\ last.wire # <<>>
    /\ \/ Read_(1) = EmptyStr
       \/ Len(last.wire) = 2 /\ Read_(2) = EmptyStr

\* C33: a write that passed the limit checks has stored the rounded value
\* when its dispatch ends, however it ends; when the dispatch ends with an
\* instrument error or without a response the write returns without raising
C33_StoredAndNotRolledBack ==
    (last.op = "set" /\ last.exc.type # "ValueError")
        => /\ Stored = round(last.arg, _SUPPLY_RESOLVED_DIGITS)
           /\ (last.exc.type # "SerialException"
                  /\ (EndedWithInstrumentError \/ EndedWithNoResponse))
                 => last.exc.type = "none"

\* a write whose command made the instrument record an error: the error
\* string is what the dispatch returned and the new value is stored
C33_Witness ==
    /\ last.op = "set" /\ last.exc.type = "none"
    /\ EndedWithInstrumentError /\ last.by = "current"
    /\ Stored = round(last.arg, _SUPPLY_RESOLVED_DIGITS) /\ Stored # 0

\* the fourth decimal digit in model units
Resolved == Pow10(UnitDigits - 4)
\* the value the APPLy command of the last write carries for its quantity
Carried == float(last.calls[1].cmd.fields[IF last.quantity = "voltage" THEN 2 ELSE 3])

C35_WriteChangesItsPairOnly ==
    [][(nops' = nops + 1 /\ last'.op = "set")
          => \A i \in DOMAIN setpoint : \A ch \in Channels, q \in Quantities :
                (i # last'.self \/ ch # last'.output \/ q # last'.quantity)
                    => setpoint'[i][ch][q] = setpoint[i][ch][q]]_vars

\* the voltage was written on one instance and the current of the same output
\* on the other: each instance holds what was written on it and nothing else
C35_Witness ==
    /\ last.op = "set" /\ last.exc.type = "none" /\ last.quantity = "current"
    /\ Stored # 0
    /\ setpoint[last.self][last.output].voltage = 0
    /\ \E i \in DOMAIN setpoint \ {last.self} :
           /\ setpoint[i][last.output].voltage # 0
           /\ setpoint[i][last.output].current = 0

\* C36: every stored setpoint of every instance lies within the factory range
\* of its output and quantity, bounds included
C36_SetpointsWithinFactory ==
    \A i \in DOMAIN setpoint : \A ch \in Channels, q \in Quantities :
        InTier(Factory[ch][q], setpoint[i][ch][q])

\* a write of a value outside the factory range that the USER_* range and
\* the instance range both admit was refused
C36_Witness ==
    /\ Rejected /\ last.exc.tier = "factory"
    /\ ~LastOutside("user") /\ ~LastOutside("instance")
    /\ C36_SetpointsWithinFactory

\* the result of the last read is what the supply answered to its query
IsResponseToQuery ==
    /\ last.wire # <<>>
    /\ [last.wire[1].cmd EXCEPT !.tail = ""] = QueryText(last.output)
    /\ Read_(1) # EmptyStr
    /\ last.result = Read_(1)
    /\ ~EndedWithInstrumentError

\* C37: a read returns a value only when the result of its dispatch is the
\* response to the APPLy? query, and then the value that response reports;
\* when the dispatch returned an error string of the instrument in place of
\* the response, or an empty result, the read raises and returns nothing
C37_ReadsTheResponseOnly ==
    last.op = "get"
        => /\ last.exc.type = "none"
                 => IsResponseToQuery /\ ReportsValue /\ last.ret = Reported
           /\ (last.exc.type # "SerialException"
                  /\ (EndedWithInstrumentError \/ last.result = EmptyStr))
                 => /\ last.exc.type \in {"ValueError", "AssertionError"}
                    /\ last.ret = 0

\* a voltage read whose query made the supply record an error: the code of
\* the error string is taken for the voltage and the read raises
C37_Witness ==
    /\ last.op = "get" /\ last.quantity = "voltage"
    /\ EndedWithInstrumentError /\ last.by = "current"
    /\ last.exc.type = "AssertionError" /\ last.exc.ps = ErrCode(1) * Unit
    /\ last.ret = 0

\* the positions, among the commands the last operation handed to the
\* transport, of the beep commands and of the commands of the detection
Beeps == {i \in DOMAIN last.calls : last.calls[i].cmd = WithNewline(beep_command)}
DetectionAndRemote ==
    {i \in DOMAIN last.calls :
        last.calls[i].cmd \in {WithNewline(version_command), WithNewline(idn_command),
                               WithNewline(remote_command)}}

\* C38: a construction with the sound option that raised nothing dispatched
\* exactly three beep commands, each after the version and identity queries
\* and after SYSTem:REMote when that was sent, whether it found an instrument
\* or warned that nothing responds; a construction without the option
\* dispatched no beep command
C38_ThreeBeepsIffSound ==
    last.op = "__init__"
        => /\ (last.arg.sound /\ last.exc.type = "none")
                 => /\ Cardinality(Beeps) = 3
                    /\ \A i \in Beeps : \A j \in DetectionAndRemote : j < i
                    /\ Handed(version_command)
           /\ ~last.arg.sound => Beeps = {}

\* nothing answered, the construction warned, sent no SYSTem:REMote and beeped
\* three times all the same
C38_Witness ==
    /\ last.op = "__init__" /\ last.arg.sound /\ last.exc.type = "none"
    /\ WarnedNoInstrument /\ ~Handed(remote_command)
    /\ IdentityAsked
    /\ Cardinality(Beeps) = 3

\* an instrument answered, SYSTem:REMote was sent and three beeps followed it
C38_WitnessDetected ==
    /\ last.op = "__init__" /\ last.arg.sound /\ last.exc.type = "none"
    /\ Handed(remote_command) /\ ~WarnedNoInstrument
    /\ Cardinality(Beeps) = 3

\* a silent construction that found an instrument
C38_WitnessSilent ==
    /\ last.op = "__init__" /\ ~last.arg.sound /\ last.exc.type = "none"
    /\ Handed(remote_command) /\ Beeps = {}

\* the line without one trailing CRLF, written out on the text of the model
WithoutCRLF(raw) == IF raw.tail = "\r\n" THEN [fields |-> raw.fields, tail |-> ""] ELSE raw
\* the command the last operation asked the dispatcher to send
RequestedCommand ==
    CASE last.op = "set" -> ApplyText(last.self, last.output, setpoint)
      [] last.op = "get" -> QueryText(last.output)
      [] last.op = "error" -> error_command
\* every call of the last operation ran to the close of the port
NoPortFailure == \A i \in DOMAIN last.calls : last.calls[i].port = PortEvents(IdealEnv)
\* the k-th line the last operation read came without the CRLF
Unterminated(k) == k \in DOMAIN last.wire /\ last.wire[k].raw.tail # "\r\n"

\* C39: every call of the transport is handed the command followed by one
\* newline; the response of a dispatch is the line read without its trailing
\* CRLF when it ends with CRLF and the line as read otherwise, and the result
\* is that response, or the same of the error query when it names an error;
\* a line without the terminator, an empty one included, raises nothing in
\* the dispatcher
C39_NewlineAddedCRLFRemoved ==
    DispatchOp
        => /\ \A i \in DOMAIN last.calls :
                  /\ last.calls[i].cmd.tail = "\n"
                  /\ [last.calls[i].cmd EXCEPT !.tail = ""] =
                        (IF i = 1 THEN RequestedCommand ELSE error_command)
           /\ (last.exc.type # "SerialException" /\ Len(last.wire) = 1)
                 => last.result = WithoutCRLF(last.wire[1].raw)
           /\ (last.exc.type # "SerialException" /\ Len(last.wire) = 2)
                 => last.result =
                        (IF WithoutCRLF(last.wire[2].raw) \in {EmptyStr, no_error_string}
                         THEN WithoutCRLF(last.wire[1].raw)
                         ELSE WithoutCRLF(last.wire[2].raw))
           /\ NoPortFailure
                 => /\ last.exc.type # "SerialException"
                    /\ last.op \in {"set", "error"} => last.exc.type = "none"

\* error() read its line up to the LF without the CR: the line is returned as
\* it was read, after an error query that found no error
C39_Witness ==
    /\ last.op = "error" /\ last.exc.type = "none"
    /\ Len(last.wire) = 2 /\ Unterminated(1) /\ last.wire[1].raw.tail = "\n"
    /\ last.wire[2].raw = [no_error_string EXCEPT !.tail = "\r\n"]
    /\ last.result = last.wire[1].raw
    /\ last.result # EmptyStr

\* a read whose response was cut before its CRLF returns the value all the same
C39_WitnessCut ==
    /\ last.op = "get" /\ last.exc.type = "none"
    /\ Unterminated(1) /\ last.wire[1].raw.tail = "" /\ last.wire[1].raw # EmptyStr
    /\ last.result = last.wire[1].raw /\ last.ret = Reported

\* a read whose response ended with CRLF: the result is the line without it
C39_WitnessStripped ==
    /\ last.op = "get" /\ last.exc.type = "none"
    /\ last.wire[1].raw.tail = "\r\n"
    /\ last.result = [last.wire[1].raw EXCEPT !.tail = ""]

====
